---- MODULE Spec2Model ----
(***************************************************************************)
(* collab-graph: the force-layout engine (simulation.ts), the graph store  *)
(* (store.ts) and the pointer coordinator of the usePixi hook, as one     *)
(* state machine.                                                          *)
(*                                                                         *)
(* Node objects are shared by reference between the store's array and the  *)
(* simulation's array (initializeSimulation and updateSimulationNodes are  *)
(* handed the store's own objects), so one record per node id stands for   *)
(* the object: `node`.  `nodes` is the store's array (ids in order) and    *)
(* `simNodes` the array held by the d3 simulation.                         *)
(*                                                                         *)
(* Coordinates are integers.  Pointer positions, pan deltas and the        *)
(* velocities the forces produce are drawn from a line of the plane,       *)
(* P(i) = (i, YBase - i), so x and y are both carried and differ.          *)
(* Alpha is counted in tenths (1.0 = 10, 0.3 = 3).                         *)
(***************************************************************************)
EXTENDS Integers, Sequences, FiniteSets, TLC

\* ---- bounds of the model ------------------------------------------------
MaxCoord == 1        \* pointer (global) coordinates are P(0) .. P(MaxCoord)
MaxPan == 1          \* the view offset stays within V(-MaxPan) .. V(MaxPan)
MaxVel == 1          \* per-tick velocity produced by the forces: V(0) .. V(MaxVel)
MaxZoomOut == 1      \* wheel steps the view can be zoomed out below scale 1
MaxLinks == 3        \* links in a link array given to linkCurvatures

\* ---- values -------------------------------------------------------------
NULL == 0 - 1000     \* null / undefined / NaN of a numeric field
NoId == "null"       \* null of an id-valued ref or field

NodeIds == {"A", "B", "C"}
InitialNodeIds == <<"A", "B">>
\* `bound` is false while source and target are still ids, true once the link
\* force has replaced them by the node objects
InitialLinks == << [id |-> "l1", source |-> "A", target |-> "B", bound |-> FALSE] >>
Buttons == {0, 1, 2}

YBase == MaxCoord + MaxPan + 1
P(i) == [x |-> i, y |-> YBase - i]
V(d) == [x |-> d, y |-> 0 - d]
Glob == 0..MaxCoord
Pans == (0 - MaxPan)..MaxPan
Vel == 0..MaxVel

Range(s) == {s[i] : i \in 1..Len(s)}

\* alpha in tenths
INITIAL_ALPHA == 10
SIMULATION_ALPHA == 3
DRAG_ALPHA_TARGET == 3
ALPHA_MIN == 1

\* store:       nodes, links (arrays), node (the node objects), contextMenu,
\*              frozenNodeId; usedIds: ids handed out so far (uuids are fresh)
\* simulation:  simulation (the module's handle), simNodes, simLinks, alpha,
\*              alphaTarget, running (the d3 timer); earlier: the simulations
\*              the handle no longer refers to whose d3 timer still runs
\* hook:        activeDragTargetId, isPanning, lastPanPoint (refs), world (the
\*              view offset), pixiNodes, pixiLinks (display objects), phase
\*              (where the async init stands), nodesDirty / linksDirty (an
\*              effect is pending), linkCurvaturesRef (the memoized curvature
\*              map of the last render), cancelled (the awaits of init()
\*              calls whose mount was torn down and whose promise has not
\*              resolved yet)
\* drawing:     drawCall (the arguments of the drawLink call looked at),
\*              linkGfx (what that call left in the link's Graphics); the
\*              interaction scenarios keep the links' Graphics as the id set
\*              pixiLinks and leave these two alone
\* history:     tickAfterDispose (a tick ran with the handle null), threw (a
\*              handler raised an exception)
VARIABLES
  nodes, links, node, contextMenu, frozenNodeId, usedIds,
  simulation, simNodes, simLinks, alpha, alphaTarget, running,
  activeDragTargetId, isPanning, lastPanPoint, world, pixiNodes, pixiLinks,
  phase, nodesDirty, linksDirty, linkCurvaturesRef,
  tickAfterDispose, threw, drawCall, linkGfx, cancelled, earlier

vars == <<nodes, links, node, contextMenu, frozenNodeId, usedIds,
          simulation, simNodes, simLinks, alpha, alphaTarget, running,
          activeDragTargetId, isPanning, lastPanPoint, world, pixiNodes, pixiLinks,
          phase, nodesDirty, linksDirty, linkCurvaturesRef, tickAfterDispose, threw,
          drawCall, linkGfx, cancelled, earlier>>

\* ---- node objects -------------------------------------------------------
\* a node object as the store creates it: no motion state yet
NewNode == [x |-> NULL, y |-> NULL, vx |-> NULL, vy |-> NULL,
            fx |-> NULL, fy |-> NULL, pinned |-> FALSE]
NoMenu == [nodeId |-> NoId, x |-> NULL, y |-> NULL]
NoPixi == [x |-> NULL, y |-> NULL, alpha |-> NULL]
\* the wheel's zoom step (1.1 in the source, 2 here so that the scales a few
\* wheel steps reach stay on an integer grid); world.scale is kept in units of
\* 1 / SCALE_UNIT, which leaves MaxZoomOut wheel steps below scale 1
SCALE_FACTOR == 2
SCALE_UNIT == SCALE_FACTOR ^ MaxZoomOut

NoWorld == [x |-> NULL, y |-> NULL, scale |-> NULL]

\* new PIXI.Container(): position (0, 0), scale 1
NewWorld == [x |-> 0, y |-> 0, scale |-> SCALE_UNIT]

\* ---- usePixi: linkCurvatures --------------------------------------------
\* curvatures in thousandths
LINK_BASE_CURVATURE == 150
LINK_CURVATURE_STEP == 250

\* the ids of links, and the UTF-16 code units of every id string
LinkIdPool == {"l1", "l2a", "l2b", "lx"}
DASH == 45
CodeUnits(str) ==
  CASE str = "A" -> <<65>>
    [] str = "B" -> <<66>>
    [] str = "C" -> <<67>>
    [] str = "A-B" -> <<65, DASH, 66>>
    [] str = "B-C" -> <<66, DASH, 67>>
    [] str = "l1" -> <<108, 49>>
    [] str = "l2a" -> <<108, 50, 97>>
    [] str = "l2b" -> <<108, 50, 98>>
    [] str = "lx" -> <<108, 120>>

\* a < b on strings: the first differing code unit decides, a proper prefix
\* is smaller
RECURSIVE StrLess(_, _)
StrLess(a, b) ==
  IF b = <<>> THEN FALSE
  ELSE IF a = <<>> THEN TRUE
  ELSE IF Head(a) = Head(b) THEN StrLess(Tail(a), Tail(b))
  ELSE Head(a) < Head(b)

\* the key of a link's group: the two endpoint ids, smaller first, joined by "-"
GroupKey(link) ==
  LET sourceId == CodeUnits(link.source)
      targetId == CodeUnits(link.target)
  IN  IF StrLess(sourceId, targetId) THEN sourceId \o <<DASH>> \o targetId
      ELSE targetId \o <<DASH>> \o sourceId

\* linkGroups.get(key): the links with that key, in array order
LinkGroup(ls, key) == SelectSeq(ls, LAMBDA l : GroupKey(l) = key)

\* a.id.localeCompare(b.id) < 0, for ids of lower-case letters and digits
LocaleLess(a, b) == StrLess(CodeUnits(a), CodeUnits(b))

\* the index of a link in its group as the group was filled
GroupIndexUnsorted(group, id) == (CHOOSE k \in 1..Len(group) : group[k].id = id) - 1

\* the index of a link in its group after group.sort by id
GroupIndex(group, id) ==
  Cardinality({k \in 1..Len(group) : LocaleLess(group[k].id, id)})

\* the curvature of the i-th of total links without the branch for a link
\* that is alone
GroupCurvatureNoBase(total, i) == ((2 * i - (total - 1)) * LINK_CURVATURE_STEP) \div 2

\* the curvature of the i-th of total links: (i - (total - 1) / 2) * step
GroupCurvature(total, i) ==
  IF total = 1 THEN LINK_BASE_CURVATURE
  ELSE ((2 * i - (total - 1)) * LINK_CURVATURE_STEP) \div 2

\* the map before the first render
NoCurvatures == [id \in LinkIdPool |-> NULL]

\* the memo: link id -> base curvature (NULL: the map has no entry)
linkCurvatures(ls) ==
  [id \in LinkIdPool |->
     IF \E k \in 1..Len(ls) : ls[k].id = id
     THEN LET link == ls[CHOOSE k \in 1..Len(ls) : ls[k].id = id]
              group == LinkGroup(ls, GroupKey(link))
          IN  GroupCurvature(Len(group), GroupIndex(group, id))
     ELSE NULL]

\* ---- the program state as a value, so that handlers compose -------------
\* `stopped` is the stopPropagation flag of the event being dispatched
St == [nodes |-> nodes, links |-> links, node |-> node, contextMenu |-> contextMenu,
       frozenNodeId |-> frozenNodeId, usedIds |-> usedIds,
       simulation |-> simulation, simNodes |-> simNodes, simLinks |-> simLinks,
       alpha |-> alpha, alphaTarget |-> alphaTarget, running |-> running,
       activeDragTargetId |-> activeDragTargetId, isPanning |-> isPanning,
       lastPanPoint |-> lastPanPoint, world |-> world, pixiNodes |-> pixiNodes,
       pixiLinks |-> pixiLinks, phase |-> phase, nodesDirty |-> nodesDirty,
       linksDirty |-> linksDirty, tickAfterDispose |-> tickAfterDispose,
       threw |-> threw, cancelled |-> cancelled, earlier |-> earlier,
       stopped |-> FALSE]

\* node objects that neither the store nor the simulation references are gone
Collect(s) ==
  [i \in NodeIds |->
     IF \/ i \in Range(s.nodes) \cup Range(s.simNodes)
        \/ \E k \in 1..Len(s.earlier) : i \in Range(s.earlier[k].simNodes)
     THEN s.node[i]
     ELSE NewNode]

\* the program's state becomes the handler's result (evaluated once); the
\* render that follows a store update recomputes the memoized curvatures
Become(result) ==
  \E s \in {result} :
    /\ nodes' = s.nodes
    /\ links' = s.links
    /\ node' = Collect(s)
    /\ contextMenu' = s.contextMenu
    /\ frozenNodeId' = s.frozenNodeId
    /\ usedIds' = s.usedIds
    /\ simulation' = s.simulation
    /\ simNodes' = s.simNodes
    /\ simLinks' = s.simLinks
    /\ alpha' = s.alpha
    /\ alphaTarget' = s.alphaTarget
    /\ running' = s.running
    /\ activeDragTargetId' = s.activeDragTargetId
    /\ isPanning' = s.isPanning
    /\ lastPanPoint' = s.lastPanPoint
    /\ world' = s.world
    /\ pixiNodes' = s.pixiNodes
    /\ pixiLinks' = s.pixiLinks
    /\ phase' = s.phase
    /\ nodesDirty' = s.nodesDirty
    /\ linksDirty' = s.linksDirty
    /\ linkCurvaturesRef' = linkCurvatures(s.links)
    /\ tickAfterDispose' = s.tickAfterDispose
    /\ threw' = s.threw
    /\ cancelled' = s.cancelled
    /\ earlier' = s.earlier
    /\ UNCHANGED <<drawCall, linkGfx>>

\* simulation.nodes().find((n) => n.id === nodeId)
Find(e, nodeId) == nodeId \in Range(e.simNodes)

IndexOf(s, id) == CHOOSE i \in 1..Len(s) : s[i] = id

\* ---- d3-force behaviour the engine relies on ----------------------------
\* initial placement of a node that has no position (phyllotaxis by index)
Phyllotaxis(i) == P((i - 1) % (MaxCoord + 1))

\* d3 initializeNodes, run by forceSimulation(nodes) and simulation.nodes(nodes):
\* a fixed node is snapped to its fix, a node without position is placed, a
\* node without velocity gets velocity zero
InitializeNode(n, i) ==
  LET n1 == IF n.fx # NULL THEN [n EXCEPT !.x = n.fx] ELSE n
      n2 == IF n1.fy # NULL THEN [n1 EXCEPT !.y = n1.fy] ELSE n1
      n3 == IF n2.x = NULL \/ n2.y = NULL
            THEN [n2 EXCEPT !.x = Phyllotaxis(i).x, !.y = Phyllotaxis(i).y]
            ELSE n2
  IN  IF n3.vx = NULL \/ n3.vy = NULL THEN [n3 EXCEPT !.vx = 0, !.vy = 0] ELSE n3

InitializeNodes(nd, arr) ==
  [i \in NodeIds |-> IF i \in Range(arr) THEN InitializeNode(nd[i], IndexOf(arr, i))
                     ELSE nd[i]]

\* one step of alpha toward alphaTarget: alpha += (alphaTarget - alpha) * alphaDecay,
\* which in tenths moves alpha by one tenth toward the target
Decay(a, target) == IF a < target THEN a + 1 ELSE IF a > target THEN a - 1 ELSE a

\* Integrate with the fixed-coordinate override ignored: a pinned node is
\* integrated like any other
IntegrateFree(n, v) ==
  [n EXCEPT !.vx = v.x, !.x = n.x + v.x, !.vy = v.y, !.y = n.y + v.y]

\* position integration of one node at the end of a tick; v is the velocity
\* left by the forces and the velocity decay
Integrate(n, v) ==
  LET nx == IF n.fx = NULL THEN [n EXCEPT !.vx = v.x, !.x = n.x + v.x]
            ELSE [n EXCEPT !.x = n.fx, !.vx = 0]
  IN  IF nx.fy = NULL THEN [nx EXCEPT !.vy = v.y, !.y = nx.y + v.y]
      ELSE [nx EXCEPT !.y = nx.fy, !.vy = 0]

\* simulation.tick(): alpha decays, every node of the simulation is integrated
SimTick(e, vel) ==
  [e EXCEPT !.alpha = Decay(e.alpha, e.alphaTarget),
            !.node = [i \in NodeIds |->
                        IF i \in Range(e.simNodes) THEN Integrate(e.node[i], V(vel[i]))
                        ELSE e.node[i]]]

\* d3 forceLink, initialize(): a link still holding ids is resolved against
\* the simulation's nodes, and find() throws "node not found" for an id that
\* matches none; a link already holding node objects is taken as it is
Resolves(l, arr) == l.bound \/ (l.source \in Range(arr) /\ l.target \in Range(arr))

AllResolve(ls, arr) == \A k \in 1..Len(ls) : Resolves(ls[k], arr)

\* the link objects after a successful initialize(); they are the caller's
\* objects, so the store's array sees the same change
Bind(ls, ids) == [k \in 1..Len(ls) |-> IF ls[k].id \in ids THEN [ls[k] EXCEPT !.bound = TRUE]
                                       ELSE ls[k]]

LinkIds(ls) == {ls[k].id : k \in 1..Len(ls)}

\* ---- simulation.ts ------------------------------------------------------
\* forceSimulation(nodes) places the nodes; registering the link force
\* resolves the links and, when one does not resolve, throws before the
\* module's handle is assigned, with the timer that forceSimulation() started
\* running and no tick listener registered yet.  The handle is overwritten
\* without a stop(): a simulation it referred to keeps its timer and its tick
\* listener
Superseded(e) ==
  IF e.simulation # NoId /\ e.running
  THEN Append(e.earlier, [simNodes |-> e.simNodes, alpha |-> e.alpha,
                          alphaTarget |-> e.alphaTarget, listening |-> TRUE])
  ELSE e.earlier

initializeSimulation(e, getNodes, getLinks) ==
  IF ~AllResolve(getLinks, getNodes)
  THEN [e EXCEPT !.node = InitializeNodes(e.node, getNodes), !.threw = TRUE,
                 !.earlier = Append(@, [simNodes |-> getNodes, alpha |-> INITIAL_ALPHA,
                                        alphaTarget |-> 0, listening |-> FALSE])]
  ELSE
  [e EXCEPT !.simulation = "sim",
            !.earlier = Superseded(e),
            !.simNodes = getNodes,
            !.simLinks = Bind(getLinks, LinkIds(getLinks)),
            !.links = Bind(e.links, LinkIds(getLinks)),
            !.node = InitializeNodes(e.node, getNodes),
            !.alpha = INITIAL_ALPHA,
            !.alphaTarget = 0,
            !.running = TRUE]

updateSimulationCenter(e) ==
  IF e.simulation = NoId THEN e
  ELSE [e EXCEPT !.alpha = SIMULATION_ALPHA, !.running = TRUE]

\* the copy loop of updateSimulationNodes for one persisting id
MergeNode(newNode, oldNode) ==
  [newNode EXCEPT !.x = oldNode.x, !.y = oldNode.y,
                  !.vx = oldNode.vx, !.vy = oldNode.vy,
                  !.fx = oldNode.fx, !.fy = oldNode.fy]

\* updateSimulationNodes that reheats but never hands the new array to the
\* simulation
updateSimulationNodesKeepOld(e, newNodes) ==
  IF e.simulation = NoId THEN e
  ELSE [e EXCEPT !.alpha = SIMULATION_ALPHA, !.running = TRUE]

updateSimulationNodes(e, newNodes) ==
  IF e.simulation = NoId THEN e
  ELSE LET merged == [i \in NodeIds |->
                        IF i \in Range(newNodes) /\ i \in Range(e.simNodes)
                        THEN MergeNode(e.node[i], e.node[i])
                        ELSE e.node[i]]
       IN  [e EXCEPT !.simNodes = newNodes,
                     !.node = InitializeNodes(merged, newNodes),
                     !.alpha = SIMULATION_ALPHA,
                     !.running = TRUE]

\* linkForce.links(links) stores the array and then resolves it; when a link
\* does not resolve the exception leaves the array stored and the reheat undone
updateSimulationLinks(e, newLinks) ==
  IF e.simulation = NoId THEN e
  ELSE IF ~AllResolve(newLinks, e.simNodes)
       THEN [e EXCEPT !.simLinks = newLinks, !.threw = TRUE]
       ELSE [e EXCEPT !.simLinks = Bind(newLinks, LinkIds(newLinks)),
                      !.links = Bind(e.links, LinkIds(newLinks)),
                      !.alpha = SIMULATION_ALPHA, !.running = TRUE]

\* stopSimulation that drops the handle without stopping the timer
stopSimulationKeepTimer(e) ==
  IF e.simulation = NoId THEN e ELSE [e EXCEPT !.simulation = NoId]

\* simulation?.stop(); simulation = null.  The stopped simulation object is
\* unreachable afterwards, so its fields are cleared.
stopSimulation(e) ==
  IF e.simulation = NoId THEN e
  ELSE [e EXCEPT !.simulation = NoId, !.running = FALSE,
                 !.simNodes = <<>>, !.simLinks = <<>>, !.alpha = 0, !.alphaTarget = 0]

\* startDragNode without `simulation.alphaTarget(DRAG_ALPHA_TARGET).restart()`
startDragNodeNoReheat(e, nodeId) ==
  IF e.simulation = NoId THEN e
  ELSE IF Find(e, nodeId)
       THEN [e EXCEPT !.node[nodeId].fx = e.node[nodeId].x,
                      !.node[nodeId].fy = e.node[nodeId].y]
       ELSE e

startDragNode(e, nodeId) ==
  IF e.simulation = NoId THEN e
  ELSE LET e1 == [e EXCEPT !.alphaTarget = DRAG_ALPHA_TARGET, !.running = TRUE]
       IN  IF Find(e, nodeId)
           THEN [e1 EXCEPT !.node[nodeId].fx = e.node[nodeId].x,
                           !.node[nodeId].fy = e.node[nodeId].y]
           ELSE e1

\* dragNode that also moves the node to the dragged coordinate
dragNodeTeleport(e, nodeId, x, y) ==
  IF e.simulation = NoId THEN e
  ELSE IF Find(e, nodeId)
       THEN [e EXCEPT !.node[nodeId].fx = x, !.node[nodeId].fy = y,
                      !.node[nodeId].x = x, !.node[nodeId].y = y]
       ELSE e

dragNode(e, nodeId, x, y) ==
  IF e.simulation = NoId THEN e
  ELSE IF Find(e, nodeId)
       THEN [e EXCEPT !.node[nodeId].fx = x, !.node[nodeId].fy = y]
       ELSE e

\* endDragNode without `simulation.alphaTarget(0)`
endDragNodeKeepTarget(e, nodeId, unfreeze) ==
  IF e.simulation = NoId THEN e
  ELSE IF Find(e, nodeId) /\ unfreeze
       THEN [e EXCEPT !.node[nodeId].fx = NULL, !.node[nodeId].fy = NULL]
       ELSE e

endDragNode(e, nodeId, unfreeze) ==
  IF e.simulation = NoId THEN e
  ELSE LET e1 == [e EXCEPT !.alphaTarget = 0]
       IN  IF unfreeze /\ Find(e, nodeId)
           THEN [e1 EXCEPT !.node[nodeId].fx = NULL, !.node[nodeId].fy = NULL]
           ELSE e1

freezeNode(e, nodeId) ==
  IF e.simulation = NoId THEN e
  ELSE IF Find(e, nodeId)
       THEN [e EXCEPT !.node[nodeId].fx = e.node[nodeId].x,
                      !.node[nodeId].fy = e.node[nodeId].y]
       ELSE e

\* unfreezeNode without the `if (!simulation) return;` guard: with the handle
\* null, `simulation.nodes()` raises a TypeError
unfreezeNodeUnguarded(e, nodeId) ==
  IF e.simulation = NoId THEN [e EXCEPT !.threw = TRUE]
  ELSE IF Find(e, nodeId)
       THEN [e EXCEPT !.node[nodeId].fx = NULL, !.node[nodeId].fy = NULL]
       ELSE e

unfreezeNode(e, nodeId) ==
  IF e.simulation = NoId THEN e
  ELSE IF Find(e, nodeId)
       THEN [e EXCEPT !.node[nodeId].fx = NULL, !.node[nodeId].fy = NULL]
       ELSE e

getSimulationNodes(e) == IF e.simulation = NoId THEN <<>> ELSE e.simNodes

\* ---- store.ts -----------------------------------------------------------
\* a store update that replaces the nodes / links array re-runs the hook's
\* effect on it; the effects do nothing before the hook is initialized
Notify(s, nodesChanged, linksChanged) ==
  [s EXCEPT !.nodesDirty = @ \/ (nodesChanged /\ s.phase = "ready"),
            !.linksDirty = @ \/ (linksChanged /\ s.phase = "ready")]

addNode(s, id) ==
  Notify([s EXCEPT !.nodes = Append(@, id), !.node[id] = NewNode], TRUE, FALSE)

\* deleteNode that keeps the links pointing at the node
deleteNodeSourceOnly(s, nodeId) ==
  Notify([s EXCEPT !.nodes = SelectSeq(@, LAMBDA i : i # nodeId),
                   !.links = SelectSeq(@, LAMBDA l : l.source # nodeId)],
         TRUE, TRUE)

deleteNode(s, nodeId) ==
  Notify([s EXCEPT !.nodes = SelectSeq(@, LAMBDA i : i # nodeId),
                   !.links = SelectSeq(@, LAMBDA l : l.source # nodeId /\ l.target # nodeId)],
         TRUE, TRUE)

openContextMenu(s, nodeId, x, y) ==
  [freezeNode(s, nodeId) EXCEPT !.contextMenu = [nodeId |-> nodeId, x |-> x, y |-> y],
                                !.frozenNodeId = nodeId]

closeContextMenu(s) ==
  LET s1 == IF s.frozenNodeId # NoId THEN unfreezeNode(s, s.frozenNodeId) ELSE s
  IN  [s1 EXCEPT !.contextMenu = NoMenu, !.frozenNodeId = NoId]

\* the store action behind the pin button: flips the persistent flag
toggleNodePin(s, nodeId) ==
  IF nodeId \in Range(s.nodes)
  THEN Notify([s EXCEPT !.node[nodeId].pinned = ~@], TRUE, FALSE)
  ELSE s

\* ---- usePixi: pointer handlers ------------------------------------------
PIXI_ALPHA_DRAG == 7
PIXI_ALPHA_IDLE == 10

\* world.toLocal ignoring world.scale
ToLocalOffsetOnly(w, g) == [x |-> g.x - w.x, y |-> g.y - w.y]

\* world.toLocal(global): the inverse of the view transform
ToLocal(w, g) ==
  [x |-> ((g.x - w.x) * SCALE_UNIT) \div w.scale,
   y |-> ((g.y - w.y) * SCALE_UNIT) \div w.scale]

\* world.toGlobal(local): the view transform, scale then offset
ToGlobal(w, p) ==
  [x |-> (p.x * w.scale) \div SCALE_UNIT + w.x,
   y |-> (p.y * w.scale) \div SCALE_UNIT + w.y]

\* handleZoom: the wheel zooms about the pointer, which keeps the world point
\* under the pointer where it is
handleZoom(s, zoomIn, m) ==
  IF s.world = NoWorld THEN s
  ELSE LET newScale == IF zoomIn THEN s.world.scale * SCALE_FACTOR
                       ELSE s.world.scale \div SCALE_FACTOR
           worldPoint == ToLocal(s.world, m)
       IN  [s EXCEPT !.world = [x |-> m.x - (worldPoint.x * newScale) \div SCALE_UNIT,
                                y |-> m.y - (worldPoint.y * newScale) \div SCALE_UNIT,
                                scale |-> newScale]]

WindowCenter == P(MaxCoord \div 2)

SetPixiAlpha(s, id, a) ==
  IF s.pixiNodes[id] # NoPixi THEN [s EXCEPT !.pixiNodes[id].alpha = a] ELSE s

\* onNodeDragStart that records the drag target but never tells the engine
onNodeDragStartNoEngine(s, ev, targetId) ==
  IF ev.button # 0 THEN s
  ELSE SetPixiAlpha([s EXCEPT !.stopped = TRUE, !.activeDragTargetId = targetId],
                    targetId, PIXI_ALPHA_DRAG)

\* onNodeDragStart without the button test: every press on a node drags
onNodeDragStartAnyButton(s, ev, targetId) ==
  LET s1 == [s EXCEPT !.stopped = TRUE, !.activeDragTargetId = targetId]
  IN  startDragNode(SetPixiAlpha(s1, targetId, PIXI_ALPHA_DRAG), targetId)

onNodeDragStart(s, ev, targetId) ==
  IF ev.button # 0 THEN s
  ELSE LET s1 == [s EXCEPT !.stopped = TRUE, !.activeDragTargetId = targetId]
       IN  startDragNode(SetPixiAlpha(s1, targetId, PIXI_ALPHA_DRAG), targetId)

onNodeRightClick(s, ev, targetId) ==
  openContextMenu([s EXCEPT !.stopped = TRUE], targetId, ev.global.x, ev.global.y)

\* onWorldPanStart that pans only for presses on the background itself
onWorldPanStartBackgroundOnly(s, ev) ==
  IF ev.target = "world"
  THEN [s EXCEPT !.isPanning = TRUE, !.lastPanPoint = ev.global]
  ELSE s

onWorldPanStart(s, ev) ==
  IF ev.target = "world" \/ ev.button = 1
  THEN [s EXCEPT !.isPanning = TRUE, !.lastPanPoint = ev.global]
  ELSE s

\* onPointerMove that pans without `lastPanPoint.current.copyFrom(mousePosition)`
onPointerMoveStalePanPoint(s, g) ==
  IF s.activeDragTargetId # NoId
  THEN LET newPos == ToLocal(s.world, g)
       IN  dragNode(s, s.activeDragTargetId, newPos.x, newPos.y)
  ELSE IF s.isPanning
       THEN [s EXCEPT !.world.x = @ + g.x - s.lastPanPoint.x,
                      !.world.y = @ + g.y - s.lastPanPoint.y]
       ELSE s

onPointerMove(s, g) ==
  IF s.activeDragTargetId # NoId
  THEN LET newPos == ToLocal(s.world, g)
       IN  dragNode(s, s.activeDragTargetId, newPos.x, newPos.y)
  ELSE IF s.isPanning
       THEN [s EXCEPT !.world.x = @ + g.x - s.lastPanPoint.x,
                      !.world.y = @ + g.y - s.lastPanPoint.y,
                      !.lastPanPoint = g]
       ELSE s

\* onPointerUpGlobal with the drag always released (endDragNode's default)
onPointerUpGlobalAlwaysRelease(s) ==
  LET s2 == IF s.activeDragTargetId # NoId
            THEN LET nodeId == s.activeDragTargetId
                     s1 == endDragNode(SetPixiAlpha(s, nodeId, PIXI_ALPHA_IDLE),
                                       nodeId, TRUE)
                 IN  [s1 EXCEPT !.activeDragTargetId = NoId]
            ELSE s
  IN  [s2 EXCEPT !.isPanning = FALSE]

\* onPointerUpGlobal with the pan flag cleared only when no drag was active
onPointerUpGlobalKeepPan(s) ==
  IF s.activeDragTargetId # NoId
  THEN LET nodeId == s.activeDragTargetId
           found == nodeId \in Range(s.nodes)
           pinned == found /\ s.node[nodeId].pinned
           s1 == endDragNode(SetPixiAlpha(s, nodeId, PIXI_ALPHA_IDLE), nodeId, ~pinned)
       IN  [s1 EXCEPT !.activeDragTargetId = NoId]
  ELSE [s EXCEPT !.isPanning = FALSE]

\* onPointerUpGlobal reading node.pinned without the optional chaining: a
\* TypeError when the store no longer holds the node, the handler aborted
onPointerUpGlobalStrict(s) ==
  IF s.activeDragTargetId # NoId /\ s.activeDragTargetId \notin Range(s.nodes)
  THEN [SetPixiAlpha(s, s.activeDragTargetId, PIXI_ALPHA_IDLE) EXCEPT !.threw = TRUE]
  ELSE LET s2 == IF s.activeDragTargetId # NoId
                 THEN LET nodeId == s.activeDragTargetId
                          s1 == endDragNode(SetPixiAlpha(s, nodeId, PIXI_ALPHA_IDLE),
                                            nodeId, ~s.node[nodeId].pinned)
                      IN  [s1 EXCEPT !.activeDragTargetId = NoId]
                 ELSE s
       IN  [s2 EXCEPT !.isPanning = FALSE]

onPointerUpGlobal(s) ==
  LET s2 == IF s.activeDragTargetId # NoId
            THEN LET nodeId == s.activeDragTargetId
                     found == nodeId \in Range(s.nodes)
                     pinned == found /\ s.node[nodeId].pinned
                     s1 == endDragNode(SetPixiAlpha(s, nodeId, PIXI_ALPHA_IDLE),
                                       nodeId, ~pinned)
                 IN  [s1 EXCEPT !.activeDragTargetId = NoId]
            ELSE s
  IN  [s2 EXCEPT !.isPanning = FALSE]

\* the simulation's tick listener: display objects follow the simulation nodes
onTick(s) ==
  [s EXCEPT !.pixiNodes =
     [i \in NodeIds |->
        IF s.pixiNodes[i] # NoPixi /\ i \in Range(getSimulationNodes(s))
        THEN [s.pixiNodes[i] EXCEPT !.x = s.node[i].x, !.y = s.node[i].y]
        ELSE s.pixiNodes[i]]]

\* ---- usePixi: effects ---------------------------------------------------
\* "Effect to manage nodes"
nodesEffect(s) ==
  LET localPoint == ToLocal(s.world, WindowCenter)
      seeded == [i \in NodeIds |->
                   IF i \in Range(s.nodes) /\ s.pixiNodes[i] = NoPixi
                   THEN [s.node[i] EXCEPT
                           !.x = IF @ = NULL THEN localPoint.x ELSE @,
                           !.y = IF @ = NULL THEN localPoint.y ELSE @]
                   ELSE s.node[i]]
      pixi == [i \in NodeIds |->
                 IF i \notin Range(s.nodes) THEN NoPixi
                 ELSE IF s.pixiNodes[i] = NoPixi
                      THEN [x |-> seeded[i].x, y |-> seeded[i].y, alpha |-> PIXI_ALPHA_IDLE]
                      ELSE s.pixiNodes[i]]
  IN  updateSimulationNodes([s EXCEPT !.node = seeded, !.pixiNodes = pixi,
                                      !.nodesDirty = FALSE],
                            s.nodes)

\* "Effect to manage links"
linksEffect(s) ==
  updateSimulationLinks([s EXCEPT !.pixiLinks = {s.links[i].id : i \in 1..Len(s.links)},
                                  !.linksDirty = FALSE],
                        s.links)

\* ---- numbers of the link geometry ----------------------------------------
\* a number is an exact fraction <<n, d>> in lowest terms with d > 0; the
\* outcomes of a division by zero are <<1, 0>> (Infinity), <<-1, 0>>
\* (-Infinity) and <<0, 0>> (NaN)
Abs(n) == IF n < 0 THEN 0 - n ELSE n

Sgn(n) == IF n > 0 THEN 1 ELSE IF n < 0 THEN -1 ELSE 0

RECURSIVE Gcd(_, _)
Gcd(a, b) == IF b = 0 THEN a ELSE Gcd(b, a % b)

Q(n, d) ==
  IF d = 0 THEN <<Sgn(n), 0>>
  ELSE LET g == Gcd(Abs(n), Abs(d))
       IN <<(Sgn(d) * n) \div g, Abs(d) \div g>>

Zero == <<0, 1>>

One == <<1, 1>>

QNeg(a) == <<0 - a[1], a[2]>>

QAbs(a) == <<Abs(a[1]), a[2]>>

QAdd(a, b) ==
  IF a[2] = 0 \/ b[2] = 0 THEN Q(a[1] * b[2] + b[1] * a[2], 0)
  ELSE LET g == Gcd(a[2], b[2])
       IN Q(a[1] * (b[2] \div g) + b[1] * (a[2] \div g), (a[2] \div g) * b[2])

QSub(a, b) == QAdd(a, QNeg(b))

QMul(a, b) ==
  IF a[2] = 0 \/ b[2] = 0 THEN Q(a[1] * b[1], 0)
  ELSE LET g == Gcd(Abs(a[1]), b[2])
           h == Gcd(Abs(b[1]), a[2])
       IN Q((a[1] \div g) * (b[1] \div h), (a[2] \div h) * (b[2] \div g))

QDiv(a, b) == QMul(a, Q(b[2], b[1]))

\* a < b as JavaScript compares numbers: false when either is NaN
QLess(a, b) ==
  IF a = <<0, 0>> \/ b = <<0, 0>> THEN FALSE
  ELSE IF a[2] = 0 /\ b[2] = 0 THEN a[1] < b[1]
  ELSE IF a[2] = 0 \/ b[2] = 0 THEN a[1] * b[2] < b[1] * a[2]
  ELSE QSub(a, b)[1] < 0

QMin(a, b) == IF QLess(b, a) THEN b ELSE a

QMax(a, b) == IF QLess(a, b) THEN b ELSE a

\* the largest r in lo..hi with r * r <= n
RECURSIVE SqrtBetween(_, _, _)
SqrtBetween(n, lo, hi) ==
  IF lo = hi THEN lo
  ELSE LET mid == (lo + hi + 1) \div 2
       IN IF mid * mid <= n THEN SqrtBetween(n, mid, hi) ELSE SqrtBetween(n, lo, mid - 1)

RootBound == 46340

IsSquare(n) ==
  n >= 0 /\ LET r == SqrtBetween(n, 0, IF n < RootBound THEN n ELSE RootBound) IN r * r = n

\* Math.sqrt on the numbers whose root is a fraction again
QSqrt(a) ==
  LET Root(n) == CHOOSE r \in {SqrtBetween(n, 0, IF n < RootBound THEN n ELSE RootBound)} : r * r = n
  IN <<Root(a[1]), Root(a[2])>>

EPSILON_PER_UNIT == 1000000

\* a < 1e-6 and a > 1e-6 for a number a >= 0
BelowEpsilon(a) == a[2] > 0 /\ a[1] <= (a[2] - 1) \div EPSILON_PER_UNIT

AboveEpsilon(a) == (a[2] = 0 /\ a[1] > 0) \/ (a[2] > 0 /\ a[1] > a[2] \div EPSILON_PER_UNIT)

\* an angle is kept as the direction it points in: the pair <<dx, dy>> of
\* coprime integers; Math.atan2(0, 0) is the angle 0
Atan2(dy, dx) ==
  IF dx[1] = 0 /\ dy[1] = 0 THEN <<1, 0>>
  ELSE LET g == Gcd(dx[2], dy[2])
           a == dx[1] * (dy[2] \div g)
           b == dy[1] * (dx[2] \div g)
           h == Gcd(Abs(a), Abs(b))
       IN <<a \div h, b \div h>>

IsRationalAngle(angle) == IsSquare(angle[1] * angle[1] + angle[2] * angle[2])

Cos(angle) == QDiv(Q(angle[1], 1), QSqrt(Q(angle[1] * angle[1] + angle[2] * angle[2], 1)))

Sin(angle) == QDiv(Q(angle[2], 1), QSqrt(Q(angle[1] * angle[1] + angle[2] * angle[2], 1)))

\* angle - Math.PI / 2
MinusHalfPi(angle) == <<angle[2], 0 - angle[1]>>

\* ---- drawing.ts: the path of a link ---------------------------------------
LINK_ARROW_PADDING == 3

LINK_CURVATURE_STANDARD_DISTANCE == 300

\* the literal added to |baseCurvature| in drawLink, in thousandths
CURVATURE_BOOST == 150

\* !v for a number or undefined
Falsy(v) == v = NULL \/ v = 0

Num(v) == Q(v, 1)

Point(x, y) == [x |-> x, y |-> y]

\* a curvature of the curvature map (thousandths) as a number
Thousandths(c) == Q(c, 1000)

\* an absent graphCenter argument, an absent control point
Undefined == [undefined |-> TRUE]

\* no drawLink call is looked at
NoCall == [undefined |-> TRUE]

\* the Graphics after linkGfx.clear() alone
NoPath == [drawn |-> FALSE]

\* getRectEdgePoint with the half-extents exchanged in the slope test
getRectEdgePointSwappedRatio(sourcePoint, targetNode) ==
  LET sx == sourcePoint.x
      sy == sourcePoint.y
      tx == IF targetNode.x = NULL THEN Zero ELSE Num(targetNode.x)
      ty == IF targetNode.y = NULL THEN Zero ELSE Num(targetNode.y)
      targetW == targetNode.width
      targetH == targetNode.height
  IN IF Falsy(targetW) \/ Falsy(targetH) THEN Point(tx, ty)
     ELSE
       LET dx == QSub(tx, sx)
           dy == QSub(ty, sy)
       IN IF BelowEpsilon(QAbs(dx)) /\ BelowEpsilon(QAbs(dy)) THEN Point(tx, ty)
          ELSE
            LET halfW == Q(targetW, 2)
                halfH == Q(targetH, 2)
                slopeY == QDiv(dy, dx)
                slopeX == QDiv(dx, dy)
            IN IF QLess(QAbs(slopeY), QDiv(halfW, halfH))
               THEN IF QLess(Zero, dx)
                    THEN Point(QSub(tx, halfW), QSub(ty, QMul(halfW, slopeY)))
                    ELSE Point(QAdd(tx, halfW), QAdd(ty, QMul(halfW, slopeY)))
               ELSE IF QLess(Zero, dy)
                    THEN Point(QSub(tx, QMul(halfH, slopeX)), QSub(ty, halfH))
                    ELSE Point(QAdd(tx, QMul(halfH, slopeX)), QAdd(ty, halfH))

getRectEdgePoint(sourcePoint, targetNode) ==
  LET sx == sourcePoint.x
      sy == sourcePoint.y
      tx == IF targetNode.x = NULL THEN Zero ELSE Num(targetNode.x)
      ty == IF targetNode.y = NULL THEN Zero ELSE Num(targetNode.y)
      targetW == targetNode.width
      targetH == targetNode.height
  IN IF Falsy(targetW) \/ Falsy(targetH) THEN Point(tx, ty)
     ELSE
       LET dx == QSub(tx, sx)
           dy == QSub(ty, sy)
       IN IF BelowEpsilon(QAbs(dx)) /\ BelowEpsilon(QAbs(dy)) THEN Point(tx, ty)
          ELSE
            LET halfW == Q(targetW, 2)
                halfH == Q(targetH, 2)
                slopeY == QDiv(dy, dx)
                slopeX == QDiv(dx, dy)
            IN IF QLess(QAbs(slopeY), QDiv(halfH, halfW))
               THEN IF QLess(Zero, dx)
                    THEN Point(QSub(tx, halfW), QSub(ty, QMul(halfW, slopeY)))
                    ELSE Point(QAdd(tx, halfW), QAdd(ty, QMul(halfW, slopeY)))
               ELSE IF QLess(Zero, dy)
                    THEN Point(QSub(tx, QMul(halfH, slopeX)), QSub(ty, halfH))
                    ELSE Point(QAdd(tx, QMul(halfH, slopeX)), QAdd(ty, halfH))

\* centerCurvature with a distance factor that is not capped at 1
centerCurvatureUncapped(sx, sy, ex, ey, angle, baseCurvature, graphCenter) ==
  LET v_se_x == QSub(ex, sx)
      v_se_y == QSub(ey, sy)
      len_se == QSqrt(QAdd(QMul(v_se_x, v_se_x), QMul(v_se_y, v_se_y)))
  IN IF ~ AboveEpsilon(len_se) THEN Thousandths(baseCurvature)
     ELSE
       LET v_sc_x == QSub(graphCenter.x, sx)
           v_sc_y == QSub(graphCenter.y, sy)
           len_sc == QSqrt(QAdd(QMul(v_sc_x, v_sc_x), QMul(v_sc_y, v_sc_y)))
           dot_se_sc == QAdd(QMul(v_se_x, v_sc_x), QMul(v_se_y, v_sc_y))
           cos_theta == IF AboveEpsilon(len_sc)
                        THEN QDiv(dot_se_sc, QMul(len_se, len_sc))
                        ELSE Zero
           sin_theta == QSqrt(QSub(One, QMax(Zero, QMin(One, QMul(cos_theta, cos_theta)))))
           distanceFactor == QDiv(len_se, Num(LINK_CURVATURE_STANDARD_DISTANCE))
           magnitude == QMul(QMul(Thousandths(Abs(baseCurvature) + CURVATURE_BOOST), sin_theta),
                             distanceFactor)
           midX == QDiv(QAdd(sx, ex), Num(2))
           midY == QDiv(QAdd(sy, ey), Num(2))
           normalAngle == MinusHalfPi(angle)
           normalX == Cos(normalAngle)
           normalY == Sin(normalAngle)
           toMidpointX == QSub(midX, graphCenter.x)
           toMidpointY == QSub(midY, graphCenter.y)
           dotProduct == QAdd(QMul(toMidpointX, normalX), QMul(toMidpointY, normalY))
           direction == IF Sgn(dotProduct[1]) = 0 THEN 1 ELSE Sgn(dotProduct[1])
       IN QMul(Num(direction), magnitude)

\* the curvature drawLink uses when a graph centre is given: the sign from
\* the side of the centre, the magnitude from the angle at the start point
\* and the length of the padded segment
centerCurvature(sx, sy, ex, ey, angle, baseCurvature, graphCenter) ==
  LET v_se_x == QSub(ex, sx)
      v_se_y == QSub(ey, sy)
      len_se == QSqrt(QAdd(QMul(v_se_x, v_se_x), QMul(v_se_y, v_se_y)))
  IN IF ~ AboveEpsilon(len_se) THEN Thousandths(baseCurvature)
     ELSE
       LET v_sc_x == QSub(graphCenter.x, sx)
           v_sc_y == QSub(graphCenter.y, sy)
           len_sc == QSqrt(QAdd(QMul(v_sc_x, v_sc_x), QMul(v_sc_y, v_sc_y)))
           dot_se_sc == QAdd(QMul(v_se_x, v_sc_x), QMul(v_se_y, v_sc_y))
           cos_theta == IF AboveEpsilon(len_sc)
                        THEN QDiv(dot_se_sc, QMul(len_se, len_sc))
                        ELSE Zero
           sin_theta == QSqrt(QSub(One, QMax(Zero, QMin(One, QMul(cos_theta, cos_theta)))))
           distanceFactor == QMin(QDiv(len_se, Num(LINK_CURVATURE_STANDARD_DISTANCE)), One)
           magnitude == QMul(QMul(Thousandths(Abs(baseCurvature) + CURVATURE_BOOST), sin_theta),
                             distanceFactor)
           midX == QDiv(QAdd(sx, ex), Num(2))
           midY == QDiv(QAdd(sy, ey), Num(2))
           normalAngle == MinusHalfPi(angle)
           normalX == Cos(normalAngle)
           normalY == Sin(normalAngle)
           toMidpointX == QSub(midX, graphCenter.x)
           toMidpointY == QSub(midY, graphCenter.y)
           dotProduct == QAdd(QMul(toMidpointX, normalX), QMul(toMidpointY, normalY))
           direction == IF Sgn(dotProduct[1]) = 0 THEN 1 ELSE Sgn(dotProduct[1])
       IN QMul(Num(direction), magnitude)

\* startPoint, endPoint and angle of drawLink: where the centre line leaves
\* the source's rectangle and enters the target's, and the direction between
linkStart(sourceNode, targetNode) ==
  getRectEdgePoint(Point(Num(targetNode.x), Num(targetNode.y)), sourceNode)

linkEnd(sourceNode, targetNode) ==
  getRectEdgePoint(Point(Num(sourceNode.x), Num(sourceNode.y)), targetNode)

linkAngle(sourceNode, targetNode) ==
  Atan2(QSub(linkEnd(sourceNode, targetNode).y, linkStart(sourceNode, targetNode).y),
        QSub(linkEnd(sourceNode, targetNode).x, linkStart(sourceNode, targetNode).x))

\* drawLinkPath with the arrowhead of a curve at the angle of the raw segment
drawLinkPathRawArrow(dx, dy, sx, sy, ex, ey, angle, curvature) ==
  IF curvature = Zero
  THEN [drawn |-> TRUE, start |-> Point(sx, sy), control |-> Undefined, end |-> Point(ex, ey),
        curvature |-> curvature, arrowheadAngle |-> angle]
  ELSE
    LET controlPointBase == Point(QDiv(QAdd(sx, ex), Num(2)), QDiv(QAdd(sy, ey), Num(2)))
        normalAngle == MinusHalfPi(angle)
        curveIntensity == QMul(QSqrt(QAdd(QMul(dx, dx), QMul(dy, dy))), curvature)
        ctrlX == QAdd(controlPointBase.x, QMul(Cos(normalAngle), curveIntensity))
        ctrlY == QAdd(controlPointBase.y, QMul(Sin(normalAngle), curveIntensity))
    IN [drawn |-> TRUE, start |-> Point(sx, sy), control |-> Point(ctrlX, ctrlY),
        end |-> Point(ex, ey), curvature |-> curvature,
        arrowheadAngle |-> angle]

\* drawLink from the padded end points and the curvature on: the line or the
\* quadratic curve, and the angle the arrowhead is drawn at
drawLinkPath(dx, dy, sx, sy, ex, ey, angle, curvature) ==
  IF curvature = Zero
  THEN [drawn |-> TRUE, start |-> Point(sx, sy), control |-> Undefined, end |-> Point(ex, ey),
        curvature |-> curvature, arrowheadAngle |-> angle]
  ELSE
    LET controlPointBase == Point(QDiv(QAdd(sx, ex), Num(2)), QDiv(QAdd(sy, ey), Num(2)))
        normalAngle == MinusHalfPi(angle)
        curveIntensity == QMul(QSqrt(QAdd(QMul(dx, dx), QMul(dy, dy))), curvature)
        ctrlX == QAdd(controlPointBase.x, QMul(Cos(normalAngle), curveIntensity))
        ctrlY == QAdd(controlPointBase.y, QMul(Sin(normalAngle), curveIntensity))
    IN [drawn |-> TRUE, start |-> Point(sx, sy), control |-> Point(ctrlX, ctrlY),
        end |-> Point(ex, ey), curvature |-> curvature,
        arrowheadAngle |-> Atan2(QSub(ey, ctrlY), QSub(ex, ctrlX))]

\* drawLink from the raw end points and their angle on: the padding and the
\* curvature
drawLinkBetween(startPoint, endPoint, angle, baseCurvature, graphCenter) ==
  LET dx == QSub(endPoint.x, startPoint.x)
      dy == QSub(endPoint.y, startPoint.y)
      sx == QAdd(startPoint.x, QMul(Num(LINK_ARROW_PADDING), Cos(angle)))
      sy == QAdd(startPoint.y, QMul(Num(LINK_ARROW_PADDING), Sin(angle)))
      ex == QSub(endPoint.x, QMul(Num(LINK_ARROW_PADDING), Cos(angle)))
      ey == QSub(endPoint.y, QMul(Num(LINK_ARROW_PADDING), Sin(angle)))
  IN drawLinkPath(dx, dy, sx, sy, ex, ey, angle,
                  IF graphCenter = Undefined THEN Thousandths(baseCurvature)
                  ELSE centerCurvature(sx, sy, ex, ey, angle, baseCurvature, graphCenter))

\* what drawLink leaves in linkGfx: nothing, a line or a quadratic curve from
\* start to end, and the angle its arrowhead is drawn at
drawLink(sourceNode, targetNode, baseCurvature, graphCenter) ==
  IF Falsy(sourceNode.x) \/ Falsy(sourceNode.y) \/ Falsy(targetNode.x) \/ Falsy(targetNode.y)
  THEN NoPath
  ELSE drawLinkBetween(linkStart(sourceNode, targetNode), linkEnd(sourceNode, targetNode),
                       linkAngle(sourceNode, targetNode), baseCurvature, graphCenter)

\* ---- actions ------------------------------------------------------------
\* the store after initializeGraph(ns, ls) with the hook's refs as created
InitialState(ns, ls) ==
  /\ nodes = ns
  /\ links = ls
  /\ node = [i \in NodeIds |-> NewNode]
  /\ contextMenu = NoMenu
  /\ frozenNodeId = NoId
  /\ usedIds = Range(ns)
  /\ simulation = NoId
  /\ simNodes = <<>>
  /\ simLinks = <<>>
  /\ alpha = 0
  /\ alphaTarget = 0
  /\ running = FALSE
  /\ activeDragTargetId = NoId
  /\ isPanning = FALSE
  /\ lastPanPoint = [x |-> 0, y |-> 0]
  /\ world = NoWorld
  /\ pixiNodes = [i \in NodeIds |-> NoPixi]
  /\ pixiLinks = {}
  /\ phase = "awaitInit"
  /\ nodesDirty = FALSE
  /\ linksDirty = FALSE
  /\ tickAfterDispose = FALSE
  /\ threw = FALSE
  /\ cancelled = {}
  /\ earlier = <<>>

Init ==
  /\ InitialState(InitialNodeIds, InitialLinks)
  /\ linkCurvaturesRef = linkCurvatures(links)
  /\ drawCall = NoCall
  /\ linkGfx = NoPath

\* the init effect runs (again) after a teardown
Mount ==
  /\ phase = "unmounted"
  /\ Become([St EXCEPT !.phase = "awaitInit"])

\* init() after `await app.init(...)`: a cancelled call destroys the
\* application it created and returns; otherwise app and world exist
initAfterAppInit(s, isCancelled) ==
  IF isCancelled THEN s
  ELSE [s EXCEPT !.phase = "awaitAssets", !.world = NewWorld]

\* init() after the asset load, with the cancellation test left out
initAfterAssetsLoadUnchecked(s, isCancelled) ==
  [initializeSimulation(s, s.nodes, s.links) EXCEPT
     !.phase = "ready", !.nodesDirty = TRUE, !.linksDirty = TRUE]

\* init() after `await PIXI.Assets.load(...)`: a cancelled call returns;
\* otherwise the simulation is created, the stage listeners are registered
\* and isInitialized becomes true
initAfterAssetsLoad(s, isCancelled) ==
  IF isCancelled THEN s
  ELSE [initializeSimulation(s, s.nodes, s.links) EXCEPT
          !.phase = "ready", !.nodesDirty = TRUE, !.linksDirty = TRUE]

\* app.init() resolved and the mount was not cancelled
AppInitDone ==
  /\ phase = "awaitInit"
  /\ Become(initAfterAppInit(St, FALSE))

\* the asset load resolved and the mount was not cancelled
AssetsLoaded ==
  /\ phase = "awaitAssets"
  /\ Become(initAfterAssetsLoad(St, FALSE))

\* the init effect's cleanup: isCancelled = true, the simulation stopped, the
\* application destroyed, the refs of the display reset
CleanupTo ==
  [stopSimulation(St) EXCEPT
     !.phase = "unmounted", !.world = NoWorld,
     !.pixiNodes = [i \in NodeIds |-> NoPixi], !.pixiLinks = {},
     !.nodesDirty = FALSE, !.linksDirty = FALSE]

\* the cleanup runs; an init() that was still awaiting is not followed further
\* (CleanupAwaiting follows it)
Cleanup ==
  /\ phase # "unmounted"
  /\ Become(CleanupTo)

\* the cleanup runs while init() is awaiting: the promise stays in flight
CleanupAwaiting ==
  /\ phase \in {"awaitInit", "awaitAssets"}
  /\ Become([CleanupTo EXCEPT !.cancelled = @ \cup {phase}])

\* the promise of a cancelled init() resolves
CancelledAppInitDone ==
  /\ "awaitInit" \in cancelled
  /\ Become([initAfterAppInit(St, TRUE) EXCEPT !.cancelled = @ \ {"awaitInit"}])

CancelledAssetsLoaded ==
  /\ "awaitAssets" \in cancelled
  /\ Become([initAfterAssetsLoad(St, TRUE) EXCEPT !.cancelled = @ \ {"awaitAssets"}])

\* React flushes the effects whose dependencies changed, nodes before links
RunEffectsTo ==
  LET s1 == IF nodesDirty THEN nodesEffect(St) ELSE St
  IN  IF linksDirty THEN linksEffect(s1) ELSE s1

RunEffects ==
  /\ phase = "ready"
  /\ nodesDirty \/ linksDirty
  /\ Become(RunEffectsTo)

\* the velocities a tick may leave: the forces keep free nodes inside the
\* viewport box
Forces ==
  {vel \in [NodeIds -> Vel] :
     \A i \in NodeIds :
       IF i \in Range(simNodes)
       THEN vel[i] = 0 \/ node[i].fx # NULL \/ node[i].x + vel[i] \in Glob
       ELSE vel[i] = 0}

\* the d3 timer fires: one tick, the tick listener, then the settle test
TickTo(vel) ==
  LET s1 == onTick(SimTick(St, vel))
  IN  [s1 EXCEPT !.running = ~(s1.alpha < ALPHA_MIN),
                 !.tickAfterDispose = @ \/ s1.simulation = NoId]

Tick ==
  /\ running
  /\ \E vel \in Forces : Become(TickTo(vel))

\* the velocities a tick of an earlier simulation may leave on its nodes
EarlierForces(arr) ==
  {vel \in [NodeIds -> Vel] :
     \A i \in NodeIds :
       IF i \in Range(arr)
       THEN vel[i] = 0 \/ node[i].fx # NULL \/ node[i].x + vel[i] \in Glob
       ELSE vel[i] = 0}

RemoveAt(seq, k) == [j \in 1..(Len(seq) - 1) |-> IF j < k THEN seq[j] ELSE seq[j + 1]]

\* the d3 timer of an earlier simulation fires: one tick on its own nodes
\* and alpha, its tick listener (the onTick of the call that created it), then
\* its settle test
EarlierTickTo(k, vel) ==
  LET o == earlier[k]
      t == SimTick([St EXCEPT !.simNodes = o.simNodes, !.alpha = o.alpha,
                              !.alphaTarget = o.alphaTarget], vel)
      s1 == [t EXCEPT !.simNodes = simNodes, !.alpha = alpha,
                      !.alphaTarget = alphaTarget]
      s2 == IF o.listening THEN onTick(s1) ELSE s1
  IN  [s2 EXCEPT !.earlier = IF t.alpha < ALPHA_MIN THEN RemoveAt(@, k)
                             ELSE [@ EXCEPT ![k].alpha = t.alpha]]

EarlierTick ==
  \E k \in 1..Len(earlier) :
    \E vel \in EarlierForces(earlier[k].simNodes) : Become(EarlierTickTo(k, vel))

\* a pointer press on a node's surface or on the background: "pointerdown"
\* at the target, bubbling to the world unless stopped, then "rightdown" for
\* the secondary button
PointerDownTo(target, button, g) ==
  LET ev == [target |-> target, button |-> button, global |-> P(g)]
      s1 == IF target \in NodeIds THEN onNodeDragStart(St, ev, target) ELSE St
      s2 == IF s1.stopped THEN s1 ELSE onWorldPanStart(s1, ev)
  IN  IF target \in NodeIds /\ button = 2
      THEN onNodeRightClick([s2 EXCEPT !.stopped = FALSE], ev, target)
      ELSE s2

\* the stage takes pointer events once initialized; a node is a target while
\* its display object exists
CanPress(target) ==
  /\ phase = "ready"
  /\ target \in NodeIds => pixiNodes[target] # NoPixi

PointerDown(target, button, g) ==
  /\ CanPress(target)
  /\ Become(PointerDownTo(target, button, g))

\* a primary press on a node's pin button: handled there, not propagated
PinButtonPress(id) ==
  /\ phase = "ready"
  /\ pixiNodes[id] # NoPixi
  /\ Become(toggleNodePin(St, id))

PointerMoveTo(g) == onPointerMove(St, P(g))

PointerMove(g) ==
  /\ phase = "ready"
  /\ PointerMoveTo(g).world.x \in Pans
  /\ Become(PointerMoveTo(g))

\* "pointerup" / "pointerupoutside" on the stage; a primary release inside the
\* page is followed by the DOM click that the canvas wrapper handles
PointerUpTo(button, outside) ==
  LET s1 == onPointerUpGlobal(St)
  IN  IF button = 0 /\ ~outside THEN closeContextMenu(s1) ELSE s1

PointerUp(button, outside) ==
  /\ phase = "ready"
  /\ Become(PointerUpTo(button, outside))

\* toolbar: handleAddNode with a fresh id
AddNode(id) ==
  /\ id \notin usedIds
  /\ Become([addNode(St, id) EXCEPT !.usedIds = @ \cup {id}])

\* context menu: handleDelete
MenuDeleteTo == closeContextMenu(deleteNode(St, contextMenu.nodeId))

MenuDelete ==
  /\ contextMenu # NoMenu
  /\ Become(MenuDeleteTo)

\* a click elsewhere inside the canvas wrapper
WrapperClick ==
  Become(closeContextMenu(St))

WindowResize ==
  /\ phase \in {"awaitAssets", "ready"}
  /\ Become(updateSimulationCenter(St))

\* where the wheel is turned: on the pointer line or at a pan offset
WheelPoints == {P(g) : g \in Glob} \cup {V(d) : d \in Pans}

WheelTo(zoomIn, m) == handleZoom(St, zoomIn, m)

\* "wheel" on the container; the scales and offsets kept are those the integer
\* grid represents exactly
Wheel(zoomIn, m) ==
  /\ world # NoWorld
  /\ LET w == WheelTo(zoomIn, m).world
         worldPoint == ToLocal(world, m)
     IN  /\ w.scale \in 1..SCALE_UNIT
         /\ zoomIn \/ world.scale % SCALE_FACTOR = 0
         /\ (worldPoint.x * w.scale) % SCALE_UNIT = 0
         /\ (worldPoint.y * w.scale) % SCALE_UNIT = 0
         /\ w.x \in Pans /\ w.y \in Pans
  /\ Become(WheelTo(zoomIn, m))

Next ==
  \/ Mount
  \/ AppInitDone
  \/ AssetsLoaded
  \/ Cleanup
  \/ CleanupAwaiting
  \/ CancelledAppInitDone
  \/ CancelledAssetsLoaded
  \/ RunEffects
  \/ Tick
  \/ \E target \in NodeIds \cup {"world"}, button \in Buttons, g \in Glob :
       PointerDown(target, button, g)
  \/ \E id \in NodeIds : PinButtonPress(id)
  \/ \E g \in Glob : PointerMove(g)
  \/ \E button \in Buttons, outside \in BOOLEAN : PointerUp(button, outside)
  \/ \E id \in NodeIds : AddNode(id)
  \/ MenuDelete
  \/ WrapperClick
  \/ WindowResize
  \/ \E zoomIn \in BOOLEAN, m \in WheelPoints : Wheel(zoomIn, m)

\* the whole program
Spec == Init /\ [][Next]_vars

\* ---- scenarios ----------------------------------------------------------
\* Each scenario below is Next with some of its disjuncts left out and some of
\* its inputs narrowed, so every behaviour of a scenario is a behaviour of
\* Spec.

\* one mount; drags and the context menu on nodes, under ticks
NextDrag ==
  \/ AppInitDone
  \/ AssetsLoaded
  \/ RunEffects
  \/ Tick
  \/ \E target \in NodeIds, button \in {0, 2}, g \in Glob :
       PointerDown(target, button, g)
  \/ \E g \in Glob : PointerMove(g)
  \/ \E button \in {0, 2}, outside \in BOOLEAN : PointerUp(button, outside)
  \/ MenuDelete
  \/ WrapperClick

SpecDrag == Init /\ [][NextDrag]_vars

\* one mount; primary drags and the pin button, under ticks
NextPin ==
  \/ AppInitDone
  \/ AssetsLoaded
  \/ RunEffects
  \/ Tick
  \/ \E target \in NodeIds, g \in Glob : PointerDown(target, 0, g)
  \/ \E id \in NodeIds : PinButtonPress(id)
  \/ \E g \in Glob : PointerMove(g)
  \/ \E outside \in BOOLEAN : PointerUp(0, outside)

SpecPin == Init /\ [][NextPin]_vars

\* one mount; every press on the background, primary and middle presses on
\* nodes, moves and releases, under ticks
NextGesture ==
  \/ AppInitDone
  \/ AssetsLoaded
  \/ RunEffects
  \/ Tick
  \/ \E target \in NodeIds \cup {"world"}, button \in Buttons, g \in Glob :
       /\ button = 2 => target = "world"
       /\ PointerDown(target, button, g)
  \/ \E g \in Glob : PointerMove(g)
  \/ \E button \in Buttons, outside \in BOOLEAN : PointerUp(button, outside)

SpecGesture == Init /\ [][NextGesture]_vars

\* one mount; primary presses on the first node and on the background, moves
\* and releases, with the wheel zooming the view, under ticks
NextZoom ==
  \/ AppInitDone
  \/ AssetsLoaded
  \/ RunEffects
  \/ Tick
  \/ \E target \in {InitialNodeIds[1], "world"}, g \in Glob : PointerDown(target, 0, g)
  \/ \E g \in Glob : PointerMove(g)
  \/ \E outside \in BOOLEAN : PointerUp(0, outside)
  \/ \E zoomIn \in BOOLEAN, m \in WheelPoints : Wheel(zoomIn, m)

SpecZoom == Init /\ [][NextZoom]_vars

\* one mount; the pin button, primary drags and the context menu on nodes,
\* under ticks
NextPinMenu ==
  \/ AppInitDone
  \/ AssetsLoaded
  \/ RunEffects
  \/ Tick
  \/ \E target \in NodeIds, button \in {0, 2}, g \in Glob :
       PointerDown(target, button, g)
  \/ \E id \in NodeIds : PinButtonPress(id)
  \/ \E button \in {0, 2}, outside \in BOOLEAN : PointerUp(button, outside)
  \/ WrapperClick

SpecPinMenu == Init /\ [][NextPinMenu]_vars

\* mounts and teardowns, with nodes added, primary drags and ticks
NextLifecycle ==
  \/ Mount
  \/ AppInitDone
  \/ AssetsLoaded
  \/ Cleanup
  \/ RunEffects
  \/ Tick
  \/ \E target \in NodeIds, g \in Glob : PointerDown(target, 0, g)
  \/ \E g \in Glob : PointerMove(g)
  \/ \E outside \in BOOLEAN : PointerUp(0, outside)
  \/ \E id \in NodeIds : AddNode(id)
  \/ WindowResize

SpecLifecycle == Init /\ [][NextLifecycle]_vars

\* mounts and teardowns at every point of the asynchronous init, with the
\* promises of the torn-down mounts resolving later; primary presses and
\* releases on nodes, under ticks
NextCancel ==
  \/ Mount
  \/ AppInitDone
  \/ AssetsLoaded
  \/ (phase = "ready" /\ Cleanup)
  \/ CleanupAwaiting
  \/ CancelledAppInitDone
  \/ CancelledAssetsLoaded
  \/ RunEffects
  \/ Tick
  \/ \E target \in NodeIds, g \in Glob : PointerDown(target, 0, g)
  \/ \E outside \in BOOLEAN : PointerUp(0, outside)

SpecCancel == Init /\ [][NextCancel]_vars

\* ---- the engine driven directly ------------------------------------------
\* simulation.ts is a module any caller may drive.  This scenario applies its
\* exported operations to arrays the caller chooses, among them links whose
\* target matches no node; it stops at the first exception.
EngineLinkPool ==
  [l1 |-> [id |-> "l1", source |-> "A", target |-> "B", bound |-> FALSE],
   lx |-> [id |-> "lx", source |-> "A", target |-> "C", bound |-> FALSE]]

EngineLinkArrays ==
  {<<>>, <<EngineLinkPool.l1>>, <<EngineLinkPool.lx>>,
   <<EngineLinkPool.l1, EngineLinkPool.lx>>}

EngineNodeArrays == {<<"A", "B">>, <<"A">>}

\* the caller's arrays replace the store's
WithLinks(ls) == [St EXCEPT !.links = ls]

WithNodes(ns) ==
  [St EXCEPT !.nodes = ns,
             !.node = [i \in NodeIds |-> IF i \in Range(ns) /\ i \notin Range(nodes)
                                         THEN NewNode ELSE node[i]]]

EngineInitialize(ls) ==
  /\ ~threw /\ simulation = NoId
  /\ Become(initializeSimulation(WithLinks(ls), nodes, ls))

EngineReplaceLinks(ls) ==
  /\ ~threw /\ simulation # NoId
  /\ Become(updateSimulationLinks(WithLinks(ls), ls))

EngineReplaceNodes(ns) ==
  /\ ~threw /\ simulation # NoId
  /\ Become(updateSimulationNodes(WithNodes(ns), ns))

EngineSetCenter ==
  /\ ~threw /\ simulation # NoId
  /\ Become(updateSimulationCenter(St))

EngineStop ==
  /\ ~threw /\ simulation # NoId
  /\ Become(stopSimulation(St))

EngineTick == ~threw /\ Tick

EngineStartDrag(id) == ~threw /\ simulation # NoId /\ Become(startDragNode(St, id))

EngineDrag(id, g) ==
  ~threw /\ simulation # NoId /\ Become(dragNode(St, id, P(g).x, P(g).y))

EngineEndDrag(id, unfreeze) ==
  ~threw /\ simulation # NoId /\ Become(endDragNode(St, id, unfreeze))

EngineFreeze(id) == ~threw /\ simulation # NoId /\ Become(freezeNode(St, id))

EngineUnfreeze(id) == ~threw /\ simulation # NoId /\ Become(unfreezeNode(St, id))

NextEngine ==
  \/ \E ls \in EngineLinkArrays : EngineInitialize(ls)
  \/ \E ls \in EngineLinkArrays : EngineReplaceLinks(ls)
  \/ \E ns \in EngineNodeArrays : EngineReplaceNodes(ns)
  \/ EngineSetCenter
  \/ EngineStop
  \/ EngineTick
  \/ \E id \in NodeIds : EngineStartDrag(id)
  \/ \E id \in NodeIds, g \in Glob : EngineDrag(id, g)
  \/ \E id \in NodeIds, unfreeze \in BOOLEAN : EngineEndDrag(id, unfreeze)
  \/ \E id \in NodeIds : EngineFreeze(id)
  \/ \E id \in NodeIds : EngineUnfreeze(id)

SpecEngine == Init /\ [][NextEngine]_vars


\* ---- scenario: the engine initialized again without a stop ----------------
\* initializeSimulation is called whatever the handle holds, as the init
\* effect of src/src/graph/hooks/usePixi.ts does when it runs again after its
\* cleanup, which destroys the application and leaves the simulation alone
MaxEarlier == 1

EngineReinitialize(ls) ==
  /\ ~threw /\ Len(earlier) < MaxEarlier
  /\ Become(initializeSimulation(WithLinks(ls), nodes, ls))

NextReinit ==
  \/ \E ls \in EngineLinkArrays : EngineReinitialize(ls)
  \/ EngineStop
  \/ EngineTick
  \/ EarlierTick
  \/ \E id \in NodeIds : EngineStartDrag(id)
  \/ \E id \in NodeIds, unfreeze \in BOOLEAN : EngineEndDrag(id, unfreeze)

SpecReinit == Init /\ [][NextReinit]_vars

\* ---- linkCurvatures over the link arrays a store may hold -----------------
\* links with distinct ids between any two nodes, in any array order
CurvatureLinkIds == {"l1", "l2a", "l2b"}

CurvatureLinkPool ==
  {[id |-> id, source |-> s, target |-> t, bound |-> FALSE] :
     id \in CurvatureLinkIds, s \in NodeIds, t \in NodeIds}

CurvatureLinkArrays ==
  {ls \in UNION {[1..n -> CurvatureLinkPool] : n \in 0..MaxLinks} :
     \A j, k \in 1..Len(ls) : j # k => ls[j].id # ls[k].id}

CurvatureNodes == <<"A", "B", "C">>

\* the store holds some link array and the hook has not rendered yet
InitCurvature ==
  /\ \E ls \in CurvatureLinkArrays : InitialState(CurvatureNodes, ls)
  /\ linkCurvaturesRef = NoCurvatures
  /\ drawCall = NoCall
  /\ linkGfx = NoPath

\* the hook renders: useMemo computes linkCurvatures from the store's links
Render == Become(St)

NextCurvature == Render

SpecCurvature == InitCurvature /\ [][NextCurvature]_vars

\* ---- linkCurvatures over node ids that may contain "-" -------------------
\* node ids as a caller of initializeGraph may choose them; the node objects
\* play no part in linkCurvatures
GroupingNodes == <<"A", "A-B", "B-C", "C">>

GroupingLinkIds == {"l1", "l2a"}

\* a link's endpoints as ids (bound FALSE) or as resolved node objects
GroupingLinkPool ==
  {[id |-> id, source |-> s, target |-> t, bound |-> b] :
     id \in GroupingLinkIds, s \in Range(GroupingNodes), t \in Range(GroupingNodes),
     b \in BOOLEAN}

GroupingLinkArrays ==
  {ls \in UNION {[1..n -> GroupingLinkPool] : n \in 0..MaxLinks} :
     \A j, k \in 1..Len(ls) : j # k => ls[j].id # ls[k].id}

InitGrouping ==
  /\ \E ls \in GroupingLinkArrays : InitialState(GroupingNodes, ls)
  /\ linkCurvaturesRef = NoCurvatures
  /\ drawCall = NoCall
  /\ linkGfx = NoPath

NextGrouping == Render

SpecGrouping == InitGrouping /\ [][NextGrouping]_vars

\* ---- drawLink applied to one link ------------------------------------------
\* positions the simulation may give a node (0: a coordinate exactly zero)
DrawPositions == {<<100, 100>>, <<400, 100>>, <<400, 500>>, <<580, 300>>, <<0, 100>>}

\* width and height of a node: the store's default, the smallest box drawNode
\* gives, and a node without one of them
DrawSizes == {<<150, 50>>, <<80, 40>>, <<NULL, 50>>, <<150, 0>>}

DrawNodes ==
  {[x |-> p[1], y |-> p[2], width |-> s[1], height |-> s[2]] :
     p \in DrawPositions, s \in DrawSizes}

\* base curvatures linkCurvatures gives to a lone link and to the links of
\* groups of two and three, and the 0 onTick passes for a link not in the map
DrawCurvatures ==
  {LINK_BASE_CURVATURE, 0} \cup
  UNION {{GroupCurvature(total, i) : i \in 0..(total - 1)} : total \in 2..MaxLinks}

\* graph centres: on the centre line of two nodes, beside it and across it,
\* and one beside two nodes on the same spot
DrawCenters ==
  {Point(Num(p[1]), Num(p[2])) :
     p \in {<<400, 100>>, <<250, 300>>, <<178, 500>>, <<143, 500>>, <<478, 500>>,
            <<800, 128>>, <<100, 128>>, <<178, 208>>, <<106, 104>>}}

\* the centre's squared distance from the padded start point is a square
RootedAt(startPoint, angle, graphCenter) ==
  LET v_sc_x == QSub(graphCenter.x, QAdd(startPoint.x, QMul(Num(LINK_ARROW_PADDING), Cos(angle))))
      v_sc_y == QSub(graphCenter.y, QAdd(startPoint.y, QMul(Num(LINK_ARROW_PADDING), Sin(angle))))
      sq == QAdd(QMul(v_sc_x, v_sc_x), QMul(v_sc_y, v_sc_y))
  IN IsSquare(sq[1]) /\ IsSquare(sq[2])

\* the calls on which every square root drawLink takes is a fraction again
Resolvable(c) ==
  \/ Falsy(c.sourceNode.x) \/ Falsy(c.sourceNode.y)
  \/ Falsy(c.targetNode.x) \/ Falsy(c.targetNode.y)
  \/ /\ IsRationalAngle(linkAngle(c.sourceNode, c.targetNode))
     /\ \/ c.graphCenter = Undefined
        \/ RootedAt(linkStart(c.sourceNode, c.targetNode),
                    linkAngle(c.sourceNode, c.targetNode), c.graphCenter)

DrawCalls ==
  {c \in [sourceNode : DrawNodes, targetNode : DrawNodes,
          baseCurvature : DrawCurvatures, graphCenter : DrawCenters \cup {Undefined}] :
     Resolvable(c)}

\* the tick callback is about to draw one link
InitDraw ==
  /\ InitialState(InitialNodeIds, InitialLinks)
  /\ linkCurvaturesRef = linkCurvatures(links)
  /\ drawCall \in DrawCalls
  /\ linkGfx = NoPath

\* drawLink(linkGfx, sourceNode, targetNode, curvature, graphCenter)
Draw ==
  /\ drawCall # NoCall
  /\ linkGfx' = drawLink(drawCall.sourceNode, drawCall.targetNode,
                         drawCall.baseCurvature, drawCall.graphCenter)
  /\ UNCHANGED <<nodes, links, node, contextMenu, frozenNodeId, usedIds,
                 simulation, simNodes, simLinks, alpha, alphaTarget, running,
                 activeDragTargetId, isPanning, lastPanPoint, world, pixiNodes,
                 pixiLinks, phase, nodesDirty, linksDirty, linkCurvaturesRef,
                 tickAfterDispose, threw, drawCall, cancelled, earlier>>

NextDraw == Draw

SpecDraw == InitDraw /\ [][NextDraw]_vars

\* ---- deleteNode over the store's arrays ------------------------------------
StoreLinkIds == {"l1", "l2a"}

\* links as ids (bound FALSE) or as resolved by a simulation (bound TRUE)
StoreLinkPool ==
  {[id |-> id, source |-> s, target |-> t, bound |-> b] :
     id \in StoreLinkIds, s \in NodeIds, t \in NodeIds, b \in BOOLEAN}

StoreLinkArrays ==
  {ls \in UNION {[1..n -> StoreLinkPool] : n \in 0..MaxLinks} :
     \A j, k \in 1..Len(ls) : j # k => ls[j].id # ls[k].id}

\* the nodes in any order
StoreNodeArrays ==
  {ns \in [1..Cardinality(NodeIds) -> NodeIds] :
     \A j, k \in 1..Len(ns) : j # k => ns[j] # ns[k]}

\* a store some graph was loaded into; no hook is mounted on it
InitStore ==
  /\ \E ns \in StoreNodeArrays : \E ls \in StoreLinkArrays : InitialState(ns, ls)
  /\ linkCurvaturesRef = NoCurvatures
  /\ drawCall = NoCall
  /\ linkGfx = NoPath

StoreDeleteNode(id) == Become(deleteNode(St, id))

NextStore == \E id \in NodeIds : StoreDeleteNode(id)

SpecStore == InitStore /\ [][NextStore]_vars

\* ---- properties ---------------------------------------------------------
InSimulation(i) == simulation # NoId /\ i \in Range(simNodes)

\* Each property below speaks of a handler's step from a reachable state: the
\* state the handler leaves (TickTo, PointerUpTo, ...) is compared with the
\* state it started in.

\* C1: after every tick each simulation node that has fx/fy set sits exactly
\* at (fx, fy) with zero velocity, whatever the forces did, and the tick
\* listener reports it there: a node moved by dragNode is shown at the drag
\* coordinate by the next tick.
C1_TickHoldsPinnedNodes ==
  running =>
    \A vel \in Forces, i \in Range(simNodes) :
      node[i].fx # NULL =>
        LET t == TickTo(vel)
        IN  /\ t.node[i].x = node[i].fx /\ t.node[i].y = node[i].fy
            /\ t.node[i].vx = 0 /\ t.node[i].vy = 0
            /\ t.node[i].fx = node[i].fx /\ t.node[i].fy = node[i].fy
            /\ pixiNodes[i] # NoPixi =>
                 t.pixiNodes[i].x = node[i].fx /\ t.pixiNodes[i].y = node[i].fy

\* C1 witness: A is under drag at a coordinate left of the region the forces
\* keep nodes in, and a tick has put it (and its display object) there
C1_Witness ==
  /\ activeDragTargetId = "A"
  /\ InSimulation("A")
  /\ node["A"].fx = 0 - 1
  /\ node["A"].x = 0 - 1 /\ node["A"].y = node["A"].fy
  /\ node["A"].vx = 0
  /\ pixiNodes["A"].x = 0 - 1

\* C2: a pointer-up that ends a drag clears the dragged node's fx/fy when the
\* node's persistent pinned flag is not true and leaves them in place when it
\* is.
C2_PointerUpReleasesUnlessPinned ==
  phase = "ready" /\ activeDragTargetId # NoId /\ InSimulation(activeDragTargetId) =>
    LET d == activeDragTargetId
        t == onPointerUpGlobal(St)
    IN  IF d \in Range(nodes) /\ node[d].pinned
        THEN /\ node[d].fx # NULL
             /\ t.node[d].fx = node[d].fx /\ t.node[d].fy = node[d].fy
        ELSE t.node[d].fx = NULL /\ t.node[d].fy = NULL

\* C2 witness: a pinned node whose drag has ended still carries its fix, next
\* to an unpinned node whose fix is gone
C2_Witness ==
  /\ activeDragTargetId = NoId
  /\ InSimulation("A") /\ InSimulation("B")
  /\ node["A"].pinned /\ node["A"].fx # NULL /\ node["A"].fy # NULL
  /\ ~node["B"].pinned /\ node["B"].fx = NULL
  /\ pixiNodes["A"].alpha = PIXI_ALPHA_IDLE

\* C3: a pointer-up or pointer-up-outside, from DraggingNode or from Panning,
\* leaves the coordinator Idle: no active drag target and not panning.
C3_PointerUpReturnsToIdle ==
  phase = "ready" =>
    \A button \in Buttons, outside \in BOOLEAN :
      LET t == PointerUpTo(button, outside)
      IN  t.activeDragTargetId = NoId /\ t.isPanning = FALSE

\* C3 witness: Idle after a pan moved the view and a drag carried A to a
\* coordinate only a drag reaches
C3_Witness ==
  /\ activeDragTargetId = NoId /\ ~isPanning
  /\ world.x # 0
  /\ InSimulation("A") /\ node["A"].x = MaxCoord + 1 /\ node["A"].fx = NULL

\* C4: a primary-button press on a node makes that node the active drag
\* target and calls startDragNode (the node is fixed where it is, the alpha
\* target is raised and the simulation restarted); it does not start Panning.
C4_PrimaryPressStartsDrag ==
  \A target \in NodeIds, g \in Glob :
    CanPress(target) =>
      LET t == PointerDownTo(target, 0, g)
      IN  /\ t.activeDragTargetId = target
          /\ InSimulation(target) =>
               /\ t.node[target].fx = node[target].x
               /\ t.node[target].fy = node[target].y
          /\ simulation # NoId => t.alphaTarget = DRAG_ALPHA_TARGET /\ t.running
          /\ t.isPanning = isPanning /\ t.lastPanPoint = lastPanPoint

\* C4 witness: B is being dragged, fixed where it was, and no pan has ever
\* been started
C4_Witness ==
  /\ activeDragTargetId = "B"
  /\ InSimulation("B") /\ node["B"].fx = node["B"].x /\ node["B"].fy = node["B"].y
  /\ alphaTarget = DRAG_ALPHA_TARGET /\ running
  /\ ~isPanning /\ lastPanPoint = [x |-> 0, y |-> 0]

\* C5: a press on the background, or a middle-button press anywhere (a node
\* included), starts Panning from the pointer position; a middle-button press
\* on a node does not start a drag.
C5_BackgroundOrMiddlePressPans ==
  \A target \in NodeIds \cup {"world"}, button \in Buttons, g \in Glob :
    CanPress(target) /\ (target = "world" \/ button = 1) =>
      LET t == PointerDownTo(target, button, g)
      IN  /\ t.isPanning /\ t.lastPanPoint = P(g)
          /\ t.activeDragTargetId = activeDragTargetId
          /\ t.node = node
          /\ t.alphaTarget = alphaTarget

\* C5 witness: panning from P(MaxCoord) with no drag and no node fixed
C5_Witness ==
  /\ isPanning /\ lastPanPoint = P(MaxCoord)
  /\ activeDragTargetId = NoId /\ alphaTarget = 0
  /\ InSimulation("A") /\ InSimulation("B")
  /\ node["A"].fx = NULL /\ node["B"].fx = NULL

\* C6: a secondary-button press on a node never sets the drag target and
\* never calls startDragNode; it opens the context menu with the node id and
\* the pointer coordinates and pins the node at its current (x, y).
C6_SecondaryPressOpensMenu ==
  \A target \in NodeIds, g \in Glob :
    CanPress(target) =>
      LET t == PointerDownTo(target, 2, g)
      IN  /\ t.activeDragTargetId = activeDragTargetId
          /\ t.alphaTarget = alphaTarget /\ t.alpha = alpha /\ t.running = running
          /\ t.contextMenu = [nodeId |-> target, x |-> P(g).x, y |-> P(g).y]
          /\ InSimulation(target) =>
               /\ t.node[target].fx = node[target].x
               /\ t.node[target].fy = node[target].y
               /\ t.node[target].x = node[target].x
               /\ t.node[target].y = node[target].y

\* C6 witness: the menu is open for A at the pointer position, A is pinned
\* where it is, nothing is dragged and the alpha target was never raised
C6_Witness ==
  /\ contextMenu = [nodeId |-> "A", x |-> P(MaxCoord).x, y |-> P(MaxCoord).y]
  /\ frozenNodeId = "A"
  /\ InSimulation("A") /\ node["A"].fx = node["A"].x /\ node["A"].fy = node["A"].y
  /\ activeDragTargetId = NoId /\ alphaTarget = 0

\* C7: whenever the context menu is open for a node that is in the
\* simulation, that node has fx/fy set.
C7_MenuNodeStaysFrozen ==
  contextMenu.nodeId # NoId /\ InSimulation(contextMenu.nodeId) =>
    node[contextMenu.nodeId].fx # NULL /\ node[contextMenu.nodeId].fy # NULL

\* C8: once the node under an in-flight drag has been deleted, pointer-move
\* and pointer-up do not throw, pointer-move pins nothing else, and pointer-up
\* leaves no pin from that drag and no drag state: no active drag target, and
\* alpha target 0.
C8_DragOfDeletedNodeIsAbandoned ==
  phase = "ready" /\ activeDragTargetId # NoId /\ activeDragTargetId \notin Range(nodes) =>
    LET d == activeDragTargetId
    IN  /\ \A g \in Glob :
             LET m == PointerMoveTo(g)
             IN  /\ ~m.threw
                 /\ \A i \in NodeIds \ {d} : m.node[i] = node[i]
        /\ \A button \in Buttons, outside \in BOOLEAN :
             LET u == PointerUpTo(button, outside)
             IN  /\ ~u.threw
                 /\ u.activeDragTargetId = NoId
                 /\ simulation # NoId => u.alphaTarget = 0
                 /\ u.node[d].fx = NULL /\ u.node[d].fy = NULL
                 /\ \A i \in NodeIds \ {d} : u.node[i].fx # NULL => node[i].fx # NULL

\* C8 witness: A is the active drag target although the store and the
\* simulation no longer hold it; the stage still takes pointer events
C8_Witness ==
  /\ phase = "ready"
  /\ activeDragTargetId = "A" /\ alphaTarget = DRAG_ALPHA_TARGET
  /\ "A" \notin Range(nodes) /\ ~InSimulation("A")
  /\ InSimulation("B")

\* C9: once stopSimulation has returned the timer is stopped, so the tick
\* listener is never invoked again.
C9_NoTickAfterStop ==
  /\ simulation = NoId => ~running
  /\ ~tickAfterDispose

\* C9 witness: torn down after the simulation had ticked and moved a node
C9_Witness ==
  /\ phase = "unmounted" /\ simulation = NoId /\ ~running
  /\ node["A"].x = MaxCoord /\ node["A"].vx = MaxVel

\* C10 as stated: updateSimulationNodes leaves x, y, vx, vy, fx, fy of every
\* persisting id unchanged, and absent ids leave the simulation.
C10_UpdateKeepsMotionState ==
  phase = "ready" /\ nodesDirty /\ simulation # NoId =>
    LET t == RunEffectsTo
    IN  /\ Range(t.simNodes) = Range(nodes)
        /\ \A i \in Range(simNodes) \cap Range(nodes) :
             /\ t.node[i].x = node[i].x /\ t.node[i].y = node[i].y
             /\ t.node[i].vx = node[i].vx /\ t.node[i].vy = node[i].vy
             /\ t.node[i].fx = node[i].fx /\ t.node[i].fy = node[i].fy

\* C10 amended: updateSimulationNodes leaves vx, vy, fx, fy of every persisting
\* id unchanged; x, y are unchanged for a node without a fix and become
\* (fx, fy) for a node with one; absent ids leave the simulation.
C10_UpdateKeepsMotionStateUpToSnap ==
  phase = "ready" /\ nodesDirty /\ simulation # NoId =>
    LET t == RunEffectsTo
    IN  /\ Range(t.simNodes) = Range(nodes)
        /\ \A i \in Range(simNodes) \cap Range(nodes) :
             /\ t.node[i].vx = node[i].vx /\ t.node[i].vy = node[i].vy
             /\ t.node[i].fx = node[i].fx /\ t.node[i].fy = node[i].fy
             /\ IF node[i].fx = NULL
                THEN t.node[i].x = node[i].x /\ t.node[i].y = node[i].y
                ELSE t.node[i].x = node[i].fx /\ t.node[i].y = node[i].fy

\* C10 witness: B was deleted and is about to leave the simulation while A,
\* which persists, is held by a drag at a coordinate it has not reached yet
C10_Witness ==
  /\ phase = "ready" /\ nodesDirty
  /\ nodes = <<"A">> /\ InSimulation("A") /\ InSimulation("B")
  /\ activeDragTargetId = "A"
  /\ node["A"].fx # NULL /\ node["A"].fx # node["A"].x

\* the engine's state as the pin operations can touch it
EngineState(e) == [node |-> e.node, alpha |-> e.alpha, alphaTarget |-> e.alphaTarget]

\* C11: startDragNode, dragNode, endDragNode, freezeNode and unfreezeNode
\* called with an id that is not in the simulation do not throw and leave every
\* node's fields, alpha and the alpha target unchanged.
C11_StaleHandleIsNoOp ==
  simulation # NoId =>
    \A id \in NodeIds \ Range(simNodes), g \in Glob, unfreeze \in BOOLEAN :
      \A r \in {startDragNode(St, id), dragNode(St, id, P(g).x, P(g).y),
                endDragNode(St, id, unfreeze), freezeNode(St, id),
                unfreezeNode(St, id)} :
        EngineState(r) = EngineState(St) /\ ~r.threw

\* C12: a link whose source or target id matches no node is inert: replacing
\* the links completes without error, the simulation keeps running, and every
\* other link is taken up by the link force.
C12_DanglingLinkIsInert ==
  ~threw /\ simulation # NoId =>
    \A ls \in EngineLinkArrays :
      LET r == updateSimulationLinks(WithLinks(ls), ls)
      IN  /\ ~r.threw
          /\ r.running
          /\ \A k \in 1..Len(ls) : Resolves(ls[k], simNodes) => r.simLinks[k].bound

\* C13: updateSimulationNodes, updateSimulationLinks (with links that resolve)
\* and updateSimulationCenter reheat upward: alpha after the call is never
\* lower than alpha before it, and the timer is running afterwards.
C13_ReheatNeverLowersAlpha ==
  ~threw /\ simulation # NoId =>
    \A ns \in EngineNodeArrays, ls \in EngineLinkArrays :
      \A r \in {updateSimulationNodes(WithNodes(ns), ns),
                IF AllResolve(ls, simNodes) THEN updateSimulationLinks(WithLinks(ls), ls)
                ELSE updateSimulationCenter(St),
                updateSimulationCenter(St)} :
        r.alpha >= alpha /\ r.running

\* the drag scenario with the d3 timer firing for as long as it is running
SpecDragFair == Init /\ [][NextDrag]_vars /\ WF_vars(Tick)

RECURSIVE TicksToSettle(_)
TicksToSettle(a) == IF a < ALPHA_MIN THEN 0 ELSE 1 + TicksToSettle(Decay(a, 0))

C16_DragMoveMapsPointerIntoWorld ==
  activeDragTargetId # NoId /\ InSimulation(activeDragTargetId) =>
    \A g \in Glob :
      LET n == activeDragTargetId
          r == PointerMoveTo(g)
      IN  /\ ToGlobal(world, [x |-> r.node[n].fx, y |-> r.node[n].fy]) = P(g)
          /\ [r.node[n] EXCEPT !.fx = node[n].fx, !.fy = node[n].fy] = node[n]
          /\ \A i \in NodeIds \ {n} : r.node[i] = node[i]
          /\ r.world = world
          /\ [r EXCEPT !.node = node] = St

\* a drag in a panned and zoomed view holds the world point under a pointer
\* position, which is not the pointer's global coordinate
C16_Witness ==
  /\ activeDragTargetId # NoId /\ InSimulation(activeDragTargetId)
  /\ world.scale # SCALE_UNIT /\ world.x # 0
  /\ \E g \in Glob :
       /\ node[activeDragTargetId].fx = ToLocal(world, P(g)).x
       /\ node[activeDragTargetId].fy = ToLocal(world, P(g)).y
       /\ node[activeDragTargetId].fx # P(g).x
       /\ node[activeDragTargetId].fx # P(g).x - world.x


\* C17: a pointer-move while Panning (panning, no drag) moves the view offset
\* by the pointer's delta since the previous pan point and makes the pointer
\* position the new pan point, so two moves in a row move the offset by the
\* last position minus the first pan point; the scale, every node and all the
\* rest are unchanged. A pointer-move while Idle changes nothing.
C17_PanMovesViewByPointerDelta ==
  activeDragTargetId = NoId /\ world # NoWorld =>
    \A g \in Glob :
      LET r == PointerMoveTo(g)
      IN  IF isPanning
          THEN /\ r.world.x = world.x + P(g).x - lastPanPoint.x
               /\ r.world.y = world.y + P(g).y - lastPanPoint.y
               /\ r.world.scale = world.scale
               /\ r.node = node
               /\ [r EXCEPT !.world = world, !.lastPanPoint = lastPanPoint] = St
               /\ \A h \in Glob :
                    LET r2 == onPointerMove(r, P(h))
                    IN  /\ r2.world.x = world.x + P(h).x - lastPanPoint.x
                        /\ r2.world.y = world.y + P(h).y - lastPanPoint.y
                        /\ r2.node = node
          ELSE r = St

\* a pan has moved the view: the offset is away from the origin while the
\* gesture is still on, with the pan point where the pointer last was
C17_Witness ==
  /\ isPanning /\ activeDragTargetId = NoId
  /\ world # NoWorld /\ world.x # 0
  /\ \E g, h \in Glob : lastPanPoint = P(g) /\ world.x = g - h /\ world.y = h - g


\* C18: each pin operation leaves x, y, vx, vy of every node and fx, fy of
\* every node but the addressed one as they were, and keeps the simulation's
\* node array; what it may write is fx, fy of the addressed node.
C18_PinOperationsWriteOnlyOwnPin ==
  simulation # NoId /\ ~threw =>
    \A id \in NodeIds, g \in Glob, unfreeze \in BOOLEAN :
      \A r \in {startDragNode(St, id), dragNode(St, id, P(g).x, P(g).y),
                endDragNode(St, id, unfreeze), freezeNode(St, id), unfreezeNode(St, id)} :
        /\ \A i \in NodeIds \ {id} : r.node[i] = node[i]
        /\ [r.node[id] EXCEPT !.fx = node[id].fx, !.fy = node[id].fy] = node[id]
        /\ r.simNodes = simNodes /\ r.nodes = nodes

\* dragNode has fixed a node at a coordinate away from its position, which a
\* tick has not yet taken there, next to a node that is not fixed
C18_Witness ==
  /\ simulation # NoId /\ ~threw
  /\ \E i, j \in Range(simNodes) :
       /\ i # j
       /\ node[i].fx # NULL /\ node[i].fx # node[i].x
       /\ node[j].fx = NULL /\ node[j].x # NULL


\* ---- the curvature map against the link array it was computed from ------
\* two links connect the same unordered pair of nodes
SamePair(l, m) == {l.source, l.target} = {m.source, m.target}

\* the positions in the store's link array of the links between the same pair
\* of nodes as the k-th
PairGroup(k) == {j \in 1..Len(links) : SamePair(links[j], links[k])}

\* ascending order of the link ids
LinkIdRank == [id \in LinkIdPool |->
                 CASE id = "l1" -> 1 [] id = "l2a" -> 2 [] id = "l2b" -> 3 [] id = "lx" -> 4]

\* how many links of its pair group come before the k-th in that order
Position(k) ==
  Cardinality({j \in PairGroup(k) : LinkIdRank[links[j].id] < LinkIdRank[links[k].id]})

Curv(k) == linkCurvaturesRef[links[k].id]

RECURSIVE CurvatureSum(_)
CurvatureSum(S) ==
  IF S = {} THEN 0
  ELSE LET k == CHOOSE k \in S : TRUE IN Curv(k) + CurvatureSum(S \ {k})

\* the map is the one of a render over the array the store holds
Rendered == \A k \in 1..Len(links) : Curv(k) # NULL

\* C19: in a rendered map, for every link of a group of n > 1 links between
\* the same pair of nodes, with i its place in ascending link-id order: the
\* curvature is (i - (n - 1) / 2) * step, the group's curvatures sum to zero,
\* the link at place n - 1 - i has the negated curvature, the next link's
\* curvature is larger by step, and no other link of the group has the same.
C19_ParallelLinksFanOutSymmetrically ==
  Rendered =>
    \A k \in 1..Len(links) :
      LET G == PairGroup(k)
          n == Cardinality(G)
          i == Position(k)
      IN  n > 1 =>
            /\ 2 * Curv(k) = (2 * i - (n - 1)) * LINK_CURVATURE_STEP
            /\ CurvatureSum(G) = 0
            /\ \A j \in G : Position(j) = n - 1 - i => Curv(j) = 0 - Curv(k)
            /\ \A j \in G : Position(j) = i + 1 => Curv(j) - Curv(k) = LINK_CURVATURE_STEP
            /\ \A j \in G \ {k} : Curv(j) # Curv(k)

\* a rendered map for three links between one pair of nodes, given in both
\* directions and not in id order
C19_Witness ==
  /\ Len(links) = 3 /\ Rendered
  /\ \A k \in 1..3 : SamePair(links[k], links[1])
  /\ links[1].id = "l2b" /\ links[2].id = "l1"
  /\ links[1].source # links[1].target /\ links[1].source = links[2].target
  /\ Curv(1) = LINK_CURVATURE_STEP /\ Curv(2) = 0 - LINK_CURVATURE_STEP /\ Curv(3) = 0


\* the link array of the example: l1 between A and B, l2a and l2b between B
\* and C, in any array order and direction
ExampleLinks ==
  /\ Len(links) = 3
  /\ \A k \in 1..3 :
       IF links[k].id = "l1" THEN {links[k].source, links[k].target} = {"A", "B"}
       ELSE {links[k].source, links[k].target} = {"B", "C"}

\* C20: in a rendered map a link that is the only one between its pair of
\* nodes has the base curvature 0.15, whatever other links the array holds;
\* for l1 (A-B), l2a and l2b (B-C) the map holds 0.15, -0.125 and +0.125.
C20_LoneLinkGetsBaseCurvature ==
  Rendered =>
    /\ \A k \in 1..Len(links) : PairGroup(k) = {k} => Curv(k) = LINK_BASE_CURVATURE
    /\ ExampleLinks =>
         /\ linkCurvaturesRef["l1"] = LINK_BASE_CURVATURE
         /\ 2 * linkCurvaturesRef["l2a"] = 0 - LINK_CURVATURE_STEP
         /\ 2 * linkCurvaturesRef["l2b"] = LINK_CURVATURE_STEP

\* the example's array, with l1 last, rendered
C20_Witness ==
  /\ ExampleLinks /\ Rendered
  /\ links[3].id = "l1" /\ PairGroup(3) = {3}
  /\ Curv(3) = LINK_BASE_CURVATURE /\ Curv(1) # Curv(2)


\* C21: two links of the store's array are in the same curvature group exactly
\* when they connect the same unordered pair of node ids, whatever their
\* direction and whether their endpoints are ids or resolved node objects;
\* a rendered map therefore gives the base curvature to a link that is alone
\* between its pair.
C21_GroupedExactlyByNodePair ==
  Rendered =>
    /\ \A j, k \in 1..Len(links) :
         GroupKey(links[j]) = GroupKey(links[k]) <=> SamePair(links[j], links[k])
    /\ \A k \in 1..Len(links) : PairGroup(k) = {k} => Curv(k) = LINK_BASE_CURVATURE


\* the curve a drawn path traces: its two ends and its control point
Curve(path) == <<{path.start, path.end}, path.control>>

\* the drawLink call of the state with another base curvature, and with the
\* nodes exchanged as well
Twin(c) == [drawCall EXCEPT !.baseCurvature = c]

Reverse(call) == [call EXCEPT !.sourceNode = call.targetNode, !.targetNode = call.sourceNode]

Drawn(call) == drawLink(call.sourceNode, call.targetNode, call.baseCurvature, call.graphCenter)

\* C22: a link drawn in a tick (a graph centre is given) and any other link
\* of its group of links between the same two nodes, in the same or in the
\* opposite direction, get different effective curvatures and trace
\* different curves.
C22_ParallelLinksDrawnApart ==
  (linkGfx.drawn /\ drawCall.graphCenter # Undefined) =>
    \A total \in 2..MaxLinks : \A i, j \in 0..(total - 1) :
      (i # j /\ drawCall.baseCurvature = GroupCurvature(total, i)) =>
        LET other == Twin(GroupCurvature(total, j))
        IN /\ Drawn(other).curvature # linkGfx.curvature
           /\ Curve(Drawn(other)) # Curve(linkGfx)
           /\ Resolvable(Reverse(other)) => Curve(Drawn(Reverse(other))) # Curve(linkGfx)


\* both nodes of a call have a position and a positive width and height
Sized(call) ==
  \A n \in {call.sourceNode, call.targetNode} :
    ~ Falsy(n.x) /\ ~ Falsy(n.y) /\ ~ Falsy(n.width) /\ ~ Falsy(n.height)

Coincident(call) ==
  call.sourceNode.x = call.targetNode.x /\ call.sourceNode.y = call.targetNode.y

\* point p lies on the rectangle of node n, on a vertical side exactly when
\* the line to the other node's centre, which is (dx, dy) away, is flatter
\* than the rectangle's diagonal, and on the part of that line towards it
OnFacingSide(p, n, dx, dy) ==
  LET offX == QSub(p.x, Num(n.x))
      offY == QSub(p.y, Num(n.y))
      halfW == Q(n.width, 2)
      halfH == Q(n.height, 2)
  IN /\ ~ QLess(halfW, QAbs(offX))
     /\ ~ QLess(halfH, QAbs(offY))
     /\ IF Abs(dy) * n.width < n.height * Abs(dx)
        THEN QAbs(offX) = halfW
        ELSE QAbs(offY) = halfH
     /\ QMul(offX, Num(dy)) = QMul(offY, Num(dx))
     /\ QLess(Zero, QAdd(QMul(offX, Num(dx)), QMul(offY, Num(dy))))

C24_ResolverIsAntisymmetric ==
  (linkGfx.drawn /\ Resolvable(Reverse(drawCall))) =>
    LET mirrored == Drawn(Reverse(Twin(0 - drawCall.baseCurvature)))
    IN /\ mirrored.start = linkGfx.end
       /\ mirrored.end = linkGfx.start
       /\ mirrored.control = linkGfx.control


Unsized(call) ==
  \E n \in {call.sourceNode, call.targetNode} : Falsy(n.width) \/ Falsy(n.height)

\* C25: when the source or the target node has no width or no height,
\* drawLink draws nothing: the link's Graphics stays cleared.
C25_UnsizedNodeIsSkipped ==
  Unsized(drawCall) => ~ linkGfx.drawn


\* the angle points from point a to point b: b - a is k times its direction
\* for some k > 0
PointsAlong(angle, a, b) ==
  LET vx == QSub(b.x, a.x)
      vy == QSub(b.y, a.y)
      k == IF angle[1] # 0 THEN QDiv(vx, Num(angle[1])) ELSE QDiv(vy, Num(angle[2]))
  IN /\ QLess(Zero, k)
     /\ vx = QMul(k, Num(angle[1]))
     /\ vy = QMul(k, Num(angle[2]))

\* C26: the arrowhead of a curved path is drawn at the angle of the line
\* from the control point to the padded end point; the arrowhead of a
\* straight path between nodes with different centres is drawn at the angle
\* of the segment from the raw start point to the raw end point.
C26_ArrowheadFollowsTangent ==
  linkGfx.drawn =>
    IF linkGfx.control # Undefined
    THEN PointsAlong(linkGfx.arrowheadAngle, linkGfx.control, linkGfx.end)
    ELSE ~ Coincident(drawCall) =>
           PointsAlong(linkGfx.arrowheadAngle,
                       linkStart(drawCall.sourceNode, drawCall.targetNode),
                       linkEnd(drawCall.sourceNode, drawCall.targetNode))

\* a curve was drawn whose arrowhead is not at the angle of the raw segment
C26_Witness ==
  /\ linkGfx.drawn
  /\ linkGfx.control # Undefined
  /\ linkGfx.arrowheadAngle # linkAngle(drawCall.sourceNode, drawCall.targetNode)


\* the squared length of the vector (x, y)
Norm2(x, y) == QAdd(QMul(x, x), QMul(y, y))

\* the padded segment of the drawn path and the line from its start to the
\* graph centre: squared lengths, cross product and dot product
SegmentAndCenter ==
  LET v_se_x == QSub(linkGfx.end.x, linkGfx.start.x)
      v_se_y == QSub(linkGfx.end.y, linkGfx.start.y)
      v_sc_x == QSub(drawCall.graphCenter.x, linkGfx.start.x)
      v_sc_y == QSub(drawCall.graphCenter.y, linkGfx.start.y)
  IN [se2 |-> Norm2(v_se_x, v_se_y),
      sc2 |-> Norm2(v_sc_x, v_sc_y),
      cross |-> QSub(QMul(v_se_x, v_sc_y), QMul(v_se_y, v_sc_x)),
      dot |-> QAdd(QMul(v_se_x, v_sc_x), QMul(v_se_y, v_sc_y))]

\* (|base| + 0.15) * distance factor for the drawn path
MagnitudeCap ==
  LET cap == Thousandths(Abs(drawCall.baseCurvature) + CURVATURE_BOOST)
      reference == Num(LINK_CURVATURE_STANDARD_DISTANCE)
  IN QMul(cap, QMin(QDiv(QSqrt(SegmentAndCenter.se2), reference), One))

\* C27: for a path drawn with a graph centre that is not its start point,
\* the curvature is 0 when the segment points along the line to the centre
\* and only then, its magnitude is (|base| + 0.15) * distance factor when
\* the two are perpendicular and smaller otherwise, and it never exceeds
\* |base| + 0.15.
C27_MagnitudeBetweenZeroAndCap ==
  (linkGfx.drawn /\ drawCall.graphCenter # Undefined) =>
    LET g == SegmentAndCenter
        magnitude == QAbs(linkGfx.curvature)
        cap == Thousandths(Abs(drawCall.baseCurvature) + CURVATURE_BOOST)
    IN /\ ~ QLess(cap, magnitude)
       /\ ~ QLess(MagnitudeCap, magnitude)
       /\ g.sc2 # Zero =>
            /\ g.cross = Zero <=> linkGfx.curvature = Zero
            /\ g.dot = Zero <=> magnitude = MagnitudeCap

\* a curve was drawn for a segment perpendicular to the line from its start
\* to the graph centre, with a distance factor below 1
C27_Witness ==
  /\ linkGfx.drawn
  /\ drawCall.graphCenter # Undefined
  /\ SegmentAndCenter.dot = Zero
  /\ SegmentAndCenter.sc2 # Zero
  /\ linkGfx.curvature # Zero
  /\ QLess(QAbs(linkGfx.curvature),
           Thousandths(Abs(drawCall.baseCurvature) + CURVATURE_BOOST))


\* how many entries of array a satisfy Keep
CountKept(a, Keep(_)) == Cardinality({k \in 1..Len(a) : Keep(a[k])})

\* array b is array a without the entries that fail Keep, in a's order
FilteredBy(a, b, Keep(_)) ==
  /\ Len(b) = CountKept(a, Keep)
  /\ \A k \in 1..Len(a) :
       Keep(a[k]) => b[CountKept(SubSeq(a, 1, k), Keep)] = a[k]

\* C28: deleteNode(id) leaves in the nodes array exactly the nodes with
\* another id, in the links array exactly the links that neither start nor
\* end at the node (endpoints held as ids or as resolved node objects
\* alike), each unchanged and in its old order, and changes no node object
\* and nothing else but the pending effects.
C28_DeleteNodeRemovesNodeAndItsLinks ==
  \A id \in NodeIds :
    LET after == deleteNode(St, id)
        KeepNode(n) == n # id
        KeepLink(l) == l.source # id /\ l.target # id
    IN /\ FilteredBy(nodes, after.nodes, KeepNode)
       /\ FilteredBy(links, after.links, KeepLink)
       /\ [after EXCEPT !.nodes = nodes, !.links = links,
                        !.nodesDirty = nodesDirty, !.linksDirty = linksDirty] = St

\* a node was deleted from a store that keeps another node and a link
\* between the remaining nodes, resolved by a simulation
C28_Witness ==
  /\ Len(nodes) = Cardinality(NodeIds) - 1
  /\ \E k \in 1..Len(links) : links[k].bound /\ links[k].source # links[k].target
  /\ \A k \in 1..Len(links) : {links[k].source, links[k].target} \subseteq Range(nodes)


\* C29: while no node's persistent pinned flag is set, whenever no drag is
\* active and no context menu is open, no node of the simulation has fx or
\* fy set.
C29_NoFixWithoutDragOrMenu ==
  ((\A i \in NodeIds : ~ node[i].pinned) /\ activeDragTargetId = NoId /\ contextMenu = NoMenu) =>
    \A i \in NodeIds : InSimulation(i) => node[i].fx = NULL /\ node[i].fy = NULL

\* C30: the coordinator is never dragging a node and panning at once:
\* activeDragTargetId is null or isPanning is false.
C30_NeverDraggingAndPanning ==
  ~ (activeDragTargetId # NoId /\ isPanning)

\* ---- the context menu on a pinned node --------------------------------------
\* C31: closing the context menu that is open on a node whose persistent
\* pinned flag is true leaves the node's fx and fy set
C31_MenuCloseKeepsPersistentPin ==
  \A id \in NodeIds :
    (/\ frozenNodeId = id
     /\ InSimulation(id)
     /\ id \in Range(nodes)
     /\ node[id].pinned
     /\ node[id].fx # NULL
     /\ node[id].fy # NULL)
    => /\ closeContextMenu(St).node[id].fx # NULL
       /\ closeContextMenu(St).node[id].fy # NULL

\* ---- teardown ---------------------------------------------------------------
\* C32: once the init effect's cleanup has run, the simulation is stopped and
\* cleared, the display-object maps are empty, and the coordinator refs are at
\* their initial values: no active drag target, not panning
C32_TeardownResetsSession ==
  phase = "unmounted" =>
    /\ simulation = NoId
    /\ ~ running
    /\ simNodes = <<>>
    /\ \A i \in NodeIds : pixiNodes[i] = NoPixi
    /\ pixiLinks = {}
    /\ world = NoWorld
    /\ activeDragTargetId = NoId
    /\ ~ isPanning

\* ---- teardown while init() is awaiting ---------------------------------------
\* C33: when the cleanup ran while init() was awaiting, the rest of that
\* init() changes nothing once its promise resolves: it creates no simulation
\* and registers no handler; and without a mount that finished initializing
\* there is no simulation and no running timer, so no tick is taken after a
\* teardown
C33_CancelledInitStartsNothing ==
  /\ "awaitInit" \in cancelled => initAfterAppInit(St, TRUE) = St
  /\ "awaitAssets" \in cancelled => initAfterAssetsLoad(St, TRUE) = St
  /\ phase # "ready" => simulation = NoId /\ ~ running
  /\ ~ tickAfterDispose

\* both promises of torn-down mounts are in flight while no mount is there, and
\* one is still in flight when a later mount has become ready
C33_Witness ==
  \/ cancelled = {"awaitInit", "awaitAssets"} /\ phase = "unmounted"
  \/ "awaitAssets" \in cancelled /\ phase = "ready" /\ running


\* C34: at any time at most one simulation's d3 timer is live: the timer of
\* the simulation the handle refers to, and no timer of a simulation that an
\* initializeSimulation call left behind.
C34_OneTickSource ==
  Len(earlier) + (IF running THEN 1 ELSE 0) <= 1


\* C35: while the module's handle is null (before initializeSimulation, after
\* stopSimulation) every engine operation returns without raising an
\* exception and leaves every node field and everything else as it was,
\* whatever its arguments, and getSimulationNodes returns the empty list.
C35_NullHandleNoOps ==
  simulation = NoId =>
    /\ updateSimulationCenter(St) = St
    /\ \A ns \in EngineNodeArrays :
         updateSimulationNodes(WithNodes(ns), ns) = WithNodes(ns)
    /\ \A ls \in EngineLinkArrays :
         updateSimulationLinks(WithLinks(ls), ls) = WithLinks(ls)
    /\ stopSimulation(St) = St
    /\ \A id \in NodeIds :
         /\ startDragNode(St, id) = St
         /\ \A g \in Glob : dragNode(St, id, P(g).x, P(g).y) = St
         /\ \A unfreeze \in BOOLEAN : endDragNode(St, id, unfreeze) = St
         /\ freezeNode(St, id) = St
         /\ unfreezeNode(St, id) = St
    /\ getSimulationNodes(St) = <<>>

\* the handle is null after a simulation was initialized, ran and was stopped:
\* the store's nodes carry the coordinates it gave them
C35_Witness ==
  /\ simulation = NoId /\ ~threw
  /\ \E i \in Range(nodes) : node[i].x # NULL /\ node[i].fx # NULL


\* C36: whenever no drag is active (activeDragTargetId is null) the live
\* simulation's alpha target is 0, after any sequence of pointer events, node
\* replacements, mounts and teardowns; the release that ends a drag leaves
\* both the drag target null and the alpha target 0.
C36_IdleAlphaTargetZero ==
  /\ (simulation # NoId /\ activeDragTargetId = NoId) => alphaTarget = 0
  /\ (phase = "ready" /\ activeDragTargetId # NoId) =>
       \A outside \in BOOLEAN :
         /\ PointerUpTo(0, outside).activeDragTargetId = NoId
         /\ PointerUpTo(0, outside).alphaTarget = 0

\* a drag is in progress on a live simulation whose alpha target is raised
C36_Witness ==
  /\ phase = "ready" /\ simulation # NoId
  /\ activeDragTargetId # NoId /\ alphaTarget = DRAG_ALPHA_TARGET


\* both nodes of a call have a position (0 included) and a positive width and
\* height
Placed(call) ==
  \A n \in {call.sourceNode, call.targetNode} :
    n.x # NULL /\ n.y # NULL /\ ~ Falsy(n.width) /\ ~ Falsy(n.height)

\* C37: for a link whose two nodes have defined positions and extents the
\* drawLink call of a tick draws a path, also when an x or y of a node is
\* exactly 0.
C37_PlacedLinkIsDrawn ==
  (drawCall # NoCall /\ Placed(drawCall)) => Drawn(drawCall).drawn


\* a number that is neither NaN nor an infinity
Finite(a) == a[2] # 0

FinitePoint(p) == Finite(p.x) /\ Finite(p.y)

\* C38: when the centres of the two nodes coincide, getRectEdgePoint returns
\* the centre itself for both ends, drawLink draws no curve (the path has no
\* control point), and every number of the path and the arrowhead angle is
\* finite.
C38_CoincidentCentresDegrade ==
  (linkGfx.drawn /\ Sized(drawCall) /\ Coincident(drawCall)) =>
    LET s == drawCall.sourceNode
        t == drawCall.targetNode
    IN /\ linkStart(s, t) = Point(Num(s.x), Num(s.y))
       /\ linkEnd(s, t) = Point(Num(t.x), Num(t.y))
       /\ linkGfx.control = Undefined
       /\ FinitePoint(linkGfx.start) /\ FinitePoint(linkGfx.end)
       /\ Finite(linkGfx.curvature)
       /\ linkGfx.arrowheadAngle # <<0, 0>>
====
